---------------------------- MODULE Spec2Model ----------------------------
(***************************************************************************)
(* State-machine model of the hybrid PoW/PoS consensus core:               *)
(*   - HybridConsensusEngine   (cpp-core/src/consensus/hybrid_consensus.cpp)*)
(*   - Blockchain / Block      (cpp-core/src/blockchain/block.cpp)          *)
(*   - BlockchainStorageManager, UTXOManager, MemoryStorage, LevelDBStorage *)
(*                             (cpp-core/src/storage/*.cpp)                 *)
(* Each subsystem has its own variables, its own actions and its own       *)
(* specification; the variables of the other subsystems stay frozen.       *)
(***************************************************************************)
EXTENDS Integers, Sequences, FiniteSets, TLC

(***************************************************************************)
(* Unsigned machine integers.  TLC's integers are 32-bit signed, so a      *)
(* uint32_t is kept as two 16-bit limbs <<lo, hi>> and wider products as   *)
(* little-endian limb sequences.                                           *)
(***************************************************************************)
LimbBase == 256 * 256

RECURSIVE BigNorm(_)
BigNorm(a) ==
    IF Len(a) > 1 /\ a[Len(a)] = 0 THEN BigNorm(SubSeq(a, 1, Len(a) - 1)) ELSE a

BigFromNat(n) == BigNorm(<<n % LimbBase, n \div LimbBase>>)

BigLimb(a, i) == IF i <= Len(a) THEN a[i] ELSE 0

RECURSIVE BigAddFrom(_, _, _, _)
BigAddFrom(a, b, i, carry) ==
    IF i > Len(a) /\ i > Len(b)
    THEN IF carry = 0 THEN <<>> ELSE <<carry>>
    ELSE LET s == BigLimb(a, i) + BigLimb(b, i) + carry
         IN  <<s % LimbBase>> \o BigAddFrom(a, b, i + 1, s \div LimbBase)

BigAdd(a, b) == BigNorm(BigAddFrom(a, b, 1, 0))

RECURSIVE BigMulFrom(_, _, _, _)
BigMulFrom(a, m, i, carry) ==
    IF i > Len(a)
    THEN IF carry = 0 THEN <<>> ELSE <<carry % LimbBase, carry \div LimbBase>>
    ELSE LET p == a[i] * m + carry
         IN  <<p % LimbBase>> \o BigMulFrom(a, m, i + 1, p \div LimbBase)

\* a * m for a small multiplier m (m < 2^15)
BigMulSmall(a, m) == BigNorm(BigMulFrom(a, m, 1, 0))

RECURSIVE BigLeqFrom(_, _, _)
BigLeqFrom(a, b, i) ==
    IF i = 0 THEN TRUE
    ELSE IF BigLimb(a, i) # BigLimb(b, i) THEN BigLimb(a, i) < BigLimb(b, i)
    ELSE BigLeqFrom(a, b, i - 1)

BigLeq(a, b) ==
    LET n == IF Len(a) > Len(b) THEN Len(a) ELSE Len(b) IN BigLeqFrom(a, b, n)

BigLt(a, b) == ~BigLeq(b, a)

BigIsZero(a) == \A i \in 1..Len(a) : a[i] = 0

\* uint32_t values: exactly two limbs <<lo, hi>>
U32(n) == <<n % LimbBase, n \div LimbBase>>

U32Big(u) == BigNorm(u)

\* a + b modulo 2^32
U32Add(a, b) ==
    LET lo == a[1] + b[1]
        hi == a[2] + b[2] + (lo \div LimbBase)
    IN  <<lo % LimbBase, hi % LimbBase>>

\* a - b modulo 2^32
U32Sub(a, b) ==
    LET borrow == IF a[1] < b[1] THEN 1 ELSE 0
        lo == a[1] - b[1] + borrow * LimbBase
        hi == (a[2] - b[2] - borrow + LimbBase) % LimbBase
    IN  <<lo, hi>>

U32Lt(a, b) == a[2] < b[2] \/ (a[2] = b[2] /\ a[1] < b[1])

U32Leq(a, b) == ~U32Lt(b, a)

U32Min(a, b) == IF U32Lt(b, a) THEN b ELSE a

U32Max(a, b) == IF U32Lt(a, b) THEN b ELSE a

(***************************************************************************)
(* Inputs and bounds of the consensus-engine model                         *)
(***************************************************************************)
\* Hash256{} : the all-zero hash, used as the null validator id
NullHash == 0

\* validator ids offered to the engine
ValidatorIds == {1, 2}

\* stake amounts offered to add_validator (one of them below the minimum)
\* and to update_stake
StakeAmounts == {1, 2}

NewStakeAmounts == {3}

\* cap on total_stake, which add_validator can grow without limit
MaxTotalStake == 6

\* ConsensusState::min_stake_amount of the genesis state used here
MinStakeAmount == 2

\* ConsensusState::stake_maturity_blocks of the genesis state used here
StakeMaturityBlocks == 2

\* highest ordinary block height delivered to the engine
MaxHeight == 3

DIFFICULTY_ADJUSTMENT_INTERVAL == 2016

\* heights delivered to update_consensus_state
Heights == 0..MaxHeight

\* the hash of the block delivered at height h (never the null hash)
HashAtHeight(h) == h + 10

\* wall-clock readings (std::chrono::system_clock::now())
ClockTimes == {50, 65, 95}

\* slot times offered to select_validator_by_stake
SlotTimes == {10, 70, 100}

\* penalty / reward points (uint32_t)
PenaltyPoints == {95}

RewardPoints == {60}

\* caps on the counters missed_slots and total_blocks_created
MaxMissed == 1

MaxBlocksCreated == 1

\* resolution of std::uniform_real_distribution<double>(0, 1) in the model
RandDen == 4

\* values difficulty_to_bits may hand to the limit checks of the retarget.
\* bits_to_difficulty and difficulty_to_bits both shift a uint32_t by 208
\* bits (undefined), so what comes back is not a function of the arguments;
\* the values stand for: below MAX_DIFFICULTY_BITS, equal to it, between the
\* two limits, equal to MIN_DIFFICULTY_BITS, above it.
RawBits == {16777216, 486604799, 487587839, 545259519, 553648129}

MAX_DIFFICULTY_BITS == 486604799

MIN_DIFFICULTY_BITS == 545259519

min_block_interval == 30

InitialDifficulty == 486604799

VARIABLES
    \* HybridConsensusEngine::state_
    current_height, best_block_hash, total_chain_work, current_difficulty,
    validators, stakes, total_stake,
    \* environment of the engine: the system clock
    now,
    \* the last engine call: [op, id, arg, ret]
    last_call,
    \* history: per validator, the height it was added at and whether every
    \* commit since then went to a height not below the one before
    stake_hist,
    \* history: the hashes of the blocks delivered to the engine so far
    delivered,
    \* history: per validator, the penalty points it was given since it was
    \* added, and whether it was only penalized since then
    pen_hist,
    \* Blockchain: blocks, utxo_set, current_difficulty_target
    blocks, utxo_set, current_difficulty_target,
    \* the last Blockchain call: [op, ret], and the block of an add_block
    chain_call,
    \* BlockchainStorageManager: which IBlockchainStorage is behind storage_,
    \* and initialized_
    backend, initialized_,
    \* the storage: MemoryStorage's maps, or the LevelDB databases holding the
    \* same data (blocks_db, index_db, utxos_db)
    blocks_, height_to_hash_, transactions_, utxos_, best_block_hash_,
    \* LevelDBStorage::Impl::current_batch is set
    current_batch,
    \* UTXOManager::utxo_cache_
    utxo_cache_,
    \* the last BlockchainStorageManager call: [op, block, height, ret]
    store_call,
    \* history: the storage and the cache as they were when the last
    \* store_block_atomic began
    store_before,
    \* the last call of a static or const function: its name, its arguments
    \* and its result
    fn_call,
    \* ProofOfWorkMiner::should_stop_
    should_stop_,
    \* the thread inside mine_block / mine_block_parallel: its position, the
    \* arguments of the call, the future it polls next and its result
    miner,
    \* the mine_worker runs of the call: position, loop counter i, range and
    \* MiningResult
    workers,
    \* the futures of the call: "valid" until get() was called, then "got"
    futures,
    \* history: whether stop_mining was called since the call was entered, and
    \* per worker the number of nonces tested since then
    stop_hist,
    \* a MemoryStorage and a LevelDBStorage that receive the same calls
    memory_storage, leveldb_storage,
    \* the last call made on both: [op, arg], the answer of each and the two
    \* storages as they were before the call
    iface_call,
    \* a Transaction or a Block in the hands of a caller, with its private
    \* cached_hash, cached_wtxid, cached_merkle
    obj,
    \* the last call made on it: [op, ret]
    cache_call,
    \* HybridConsensusEngine::rng_, seeded from the steady clock by the
    \* constructor
    rng_,
    \* ConsensusState::pos_activation_height of the genesis state
    pos_activation_height,
    \* history: rng_ and the clock at the last select_validator_by_stake call,
    \* and whether that call repeated the call before it
    slot_call,
    \* the threads inside a call of the engine: the call each one makes, its
    \* position in it and the value it has loaded; the ConsensusState the
    \* calls in progress began from, and the number of times two calls began
    engine_calls,
    \* the threads inside a call of UTXOManager: the call each one makes, its
    \* position in it, the entry it holds and its result
    utxo_calls

engine_vars == <<current_height, best_block_hash, total_chain_work,
                 current_difficulty, validators, stakes, total_stake,
                 now, last_call, stake_hist, delivered, pen_hist>>

consensus_state == <<current_height, best_block_hash, total_chain_work,
                     current_difficulty, validators, stakes, total_stake>>

chain_state == <<blocks, utxo_set, current_difficulty_target>>

chain_vars == <<chain_state, chain_call>>

storage_state == <<blocks_, height_to_hash_, transactions_, utxos_,
                   best_block_hash_, utxo_cache_>>

store_vars == <<backend, initialized_, storage_state, current_batch,
                store_call, store_before>>

fn_vars == <<fn_call>>

miner_vars == <<should_stop_, miner, workers, futures, stop_hist>>

iface_vars == <<memory_storage, leveldb_storage, iface_call>>

cache_vars == <<obj, cache_call>>

slot_vars == <<rng_, pos_activation_height, slot_call>>

thread_vars == <<engine_calls, utxo_calls>>

vars == <<engine_vars, chain_vars, store_vars, fn_vars, miner_vars, iface_vars,
          cache_vars, slot_vars, thread_vars>>

NoCall == [op |-> "none", id |-> NullHash, arg |-> 0, ret |-> FALSE]

Call(op, id, arg, ret) == [op |-> op, id |-> id, arg |-> arg, ret |-> ret]

FnInit == fn_call = [op |-> "none"]

\* a miner that was constructed and not yet asked to mine
MinerInit ==
    /\ should_stop_ = FALSE
    /\ miner = [pc |-> "idle"]
    /\ workers = <<>>
    /\ futures = <<>>
    /\ stop_hist = [requested |-> FALSE, tested |-> <<>>]

EngineInit ==
    /\ current_height = 0
    /\ best_block_hash = NullHash
    /\ total_chain_work = 0
    /\ current_difficulty = InitialDifficulty
    /\ validators = <<>>
    /\ stakes = <<>>
    /\ total_stake = 0
    /\ now = 50
    /\ last_call = NoCall
    /\ stake_hist = <<>>
    /\ delivered = {}
    /\ pen_hist = <<>>

\* std::map::operator[] assignment: insert or overwrite
MapPut(m, k, v) == [x \in DOMAIN m \cup {k} |-> IF x = k THEN v ELSE m[x]]

\* std::map::erase
MapErase(m, k) == [x \in DOMAIN m \ {k} |-> m[x]]

(***************************************************************************)
(* HybridConsensusEngine: helpers                                          *)
(***************************************************************************)
\* DifficultyAdjustment::should_adjust_difficulty
should_adjust_difficulty(block_height) ==
    block_height % DIFFICULTY_ADJUSTMENT_INTERVAL = 0 /\ block_height > 0

\* DifficultyAdjustment::calculate_next_difficulty, from the value that
\* difficulty_to_bits returned: the two limit checks, in the code's order
calculate_next_difficulty(new_difficulty_bits) ==
    LET a == IF new_difficulty_bits > MAX_DIFFICULTY_BITS
             THEN MAX_DIFFICULTY_BITS ELSE new_difficulty_bits
    IN  IF a < MIN_DIFFICULTY_BITS THEN MIN_DIFFICULTY_BITS ELSE a

\* DifficultyAdjustment::is_valid_difficulty_target
is_valid_difficulty_target(difficulty_bits) ==
    difficulty_bits >= MIN_DIFFICULTY_BITS /\ difficulty_bits <= MAX_DIFFICULTY_BITS

\* how pow_ratio_last_period compares with target_pow_ratio:
\*   "equal"    neither ratio branch is taken (adjust_consensus_parameters
\*              passes 0.6, which is POW_TARGET_RATIO);
\*   "pow_low"  pow_ratio_last_period <= target_pow_ratio / 2, so
\*              ratio_factor is at its limit 2.0;
\*   "pow_high" pow_ratio_last_period >= 1.5 * target_pow_ratio, so
\*              ratio_factor is at its limit 1.5
PowRatios == {"equal", "pow_low", "pow_high"}

\* calculate_hybrid_difficulty up to its validity check: the time-based
\* value scaled by the ratio factor, static_cast<uint32_t> truncating
hybrid_adjusted_difficulty(new_difficulty_bits, pow_ratio) ==
    LET adjusted_difficulty == calculate_next_difficulty(new_difficulty_bits)
    IN  IF pow_ratio = "pow_low" THEN adjusted_difficulty * 2
        ELSE IF pow_ratio = "pow_high" THEN (adjusted_difficulty * 2) \div 3
        ELSE adjusted_difficulty

\* HybridDifficultyAdjustment::calculate_hybrid_difficulty
calculate_hybrid_difficulty(cur_difficulty, new_difficulty_bits, pow_ratio) ==
    IF ~is_valid_difficulty_target(
            hybrid_adjusted_difficulty(new_difficulty_bits, pow_ratio))
    THEN cur_difficulty
    ELSE hybrid_adjusted_difficulty(new_difficulty_bits, pow_ratio)

\* is_validator_eligible without the check of the stake's lock
is_validator_eligible_NoLockCheck(validator_id, slot_time) ==
    /\ validator_id \in DOMAIN validators
    /\ validators[validator_id].is_active
    /\ validator_id \in DOMAIN stakes
    /\ ~(/\ validators[validator_id].last_block_time > 0
         /\ slot_time < validators[validator_id].last_block_time + min_block_interval)

\* HybridConsensusEngine::is_validator_eligible
is_validator_eligible(validator_id, slot_time) ==
    /\ validator_id \in DOMAIN validators
    /\ validators[validator_id].is_active
    /\ validator_id \in DOMAIN stakes
    /\ ~stakes[validator_id].is_locked
    /\ ~(/\ validators[validator_id].last_block_time > 0
         /\ slot_time < validators[validator_id].last_block_time + min_block_interval)

\* HybridConsensusEngine::calculate_validator_selection_weight.  The code's
\* double  stake/total_stake * (0.5 + rep/100) * min(2, 1 + dt/3600)
\*         * max(0.1, 1 - 0.1 * missed)
\* is kept as the exact integer  stake * (50 + rep) * min(7200, 3600 + dt)
\* * max(1, 10 - missed), i.e. the weight times total_stake * 100 * 3600 * 10,
\* a positive factor common to all validators of one call.
calculate_validator_selection_weight(validator_id, slot_time) ==
    LET v == validators[validator_id]
        rep50 == BigAdd(U32Big(v.reputation_score), BigFromNat(50))
        dt == slot_time - v.last_block_time
        time_factor == IF v.last_block_time > 0
                       THEN (IF 3600 + dt > 7200 THEN 7200 ELSE 3600 + dt)
                       ELSE 3600
        activity_factor == IF 10 - v.missed_slots < 1 THEN 1 ELSE 10 - v.missed_slots
    IN  BigMulSmall(BigMulSmall(BigMulSmall(rep50, v.stake_amount), time_factor),
                    activity_factor)

\* iteration order of std::map<Hash256, ...>: ascending keys
RECURSIVE SortedSeq(_)
SortedSeq(S) ==
    IF S = {} THEN <<>>
    ELSE LET m == CHOOSE x \in S : \A y \in S : x <= y
         IN  <<m>> \o SortedSeq(S \ {m})

\* the (validator_id, weight) list select_validator_by_stake builds
validator_weights(slot_time) ==
    LET ids == SortedSeq({id \in DOMAIN validators :
                            /\ validators[id].is_active
                            /\ is_validator_eligible(id, slot_time)})
    IN  [i \in 1..Len(ids) |->
            [id |-> ids[i],
             weight |-> calculate_validator_selection_weight(ids[i], slot_time)]]

RECURSIVE AccumulatedWeight(_, _)
AccumulatedWeight(vw, i) ==
    IF i = 0 THEN BigFromNat(0)
    ELSE BigAdd(AccumulatedWeight(vw, i - 1), vw[i].weight)

\* dist(slot_rng): the draw of the generator seeded with
\* SHA256(to_string(slot_time) ++ previous_block_hash), a number u / RandDen
\* of [0, 1) that is a function of the seed only
SeedDraw_FromRng(slot_time, previous_block_hash) ==
    (slot_time * 7 + previous_block_hash * 3 + rng_) % RandDen

SeedDraw(slot_time, previous_block_hash) ==
    (slot_time * 7 + previous_block_hash * 3) % RandDen

\* HybridConsensusEngine::select_validator_by_stake
select_validator_by_stake(slot_time, previous_block_hash) ==
    IF DOMAIN validators = {} \/ total_stake = 0 THEN NullHash
    ELSE LET vw == validator_weights(slot_time)
             total_weight == AccumulatedWeight(vw, Len(vw))
             u == SeedDraw(slot_time, previous_block_hash)
             \* random_value <= accumulated_weight, both sides times RandDen
             hit(i) == BigLeq(BigMulSmall(total_weight, u),
                              BigMulSmall(AccumulatedWeight(vw, i), RandDen))
         IN  IF Len(vw) = 0 \/ BigIsZero(total_weight) THEN NullHash
             ELSE IF \E i \in 1..Len(vw) : hit(i)
                  THEN vw[CHOOSE i \in 1..Len(vw) :
                             hit(i) /\ \A j \in 1..(i - 1) : ~hit(j)].id
                  ELSE vw[Len(vw)].id

(***************************************************************************)
(* HybridConsensusEngine: operations                                       *)
(***************************************************************************)
\* add_validator that forgets the maturity period in lock_height
AddValidator_NoMaturity(validator_id, stake_amount) ==
    IF stake_amount < MinStakeAmount
    THEN /\ last_call' = Call("add_validator", validator_id, stake_amount, FALSE)
         /\ UNCHANGED <<consensus_state, now, stake_hist>>
    ELSE /\ validators' = MapPut(validators, validator_id,
                [stake_amount |-> stake_amount,
                 last_block_time |-> 0,
                 reputation_score |-> U32(100),
                 is_active |-> TRUE,
                 total_blocks_created |-> 0,
                 missed_slots |-> 0])
         /\ stakes' = MapPut(stakes, validator_id,
                [amount |-> stake_amount,
                 lock_height |-> current_height,
                 is_locked |-> TRUE])
         /\ total_stake' = total_stake + stake_amount
         /\ stake_hist' = MapPut(stake_hist, validator_id,
                [added_at |-> current_height, increasing |-> TRUE])
         /\ last_call' = Call("add_validator", validator_id, stake_amount, TRUE)
         /\ UNCHANGED <<current_height, best_block_hash, total_chain_work,
                        current_difficulty, now>>

\* HybridConsensusEngine::add_validator
AddValidator(validator_id, stake_amount) ==
    IF stake_amount < MinStakeAmount
    THEN /\ last_call' = Call("add_validator", validator_id, stake_amount, FALSE)
         /\ UNCHANGED <<consensus_state, now, stake_hist>>
    ELSE /\ validators' = MapPut(validators, validator_id,
                [stake_amount |-> stake_amount,
                 last_block_time |-> 0,
                 reputation_score |-> U32(100),
                 is_active |-> TRUE,
                 total_blocks_created |-> 0,
                 missed_slots |-> 0])
         /\ stakes' = MapPut(stakes, validator_id,
                [amount |-> stake_amount,
                 lock_height |-> current_height + StakeMaturityBlocks,
                 is_locked |-> TRUE])
         /\ total_stake' = total_stake + stake_amount
         /\ stake_hist' = MapPut(stake_hist, validator_id,
                [added_at |-> current_height, increasing |-> TRUE])
         /\ last_call' = Call("add_validator", validator_id, stake_amount, TRUE)
         /\ UNCHANGED <<current_height, best_block_hash, total_chain_work,
                        current_difficulty, now>>

\* remove_validator that does not look at the lock height
RemoveValidator_IgnoreLock(validator_id) ==
    IF /\ validator_id \in DOMAIN validators
       /\ validator_id \in DOMAIN stakes
    THEN /\ total_stake' = total_stake - stakes[validator_id].amount
         /\ stakes' = MapErase(stakes, validator_id)
         /\ validators' = MapErase(validators, validator_id)
         /\ stake_hist' = MapErase(stake_hist, validator_id)
         /\ last_call' = Call("remove_validator", validator_id, 0, TRUE)
         /\ UNCHANGED <<current_height, best_block_hash, total_chain_work,
                        current_difficulty, now>>
    ELSE /\ last_call' = Call("remove_validator", validator_id, 0, FALSE)
         /\ UNCHANGED <<consensus_state, now, stake_hist>>

\* HybridConsensusEngine::remove_validator
RemoveValidator(validator_id) ==
    IF /\ validator_id \in DOMAIN validators
       /\ validator_id \in DOMAIN stakes
       /\ current_height >= stakes[validator_id].lock_height
    THEN /\ total_stake' = total_stake - stakes[validator_id].amount
         /\ stakes' = MapErase(stakes, validator_id)
         /\ validators' = MapErase(validators, validator_id)
         /\ stake_hist' = MapErase(stake_hist, validator_id)
         /\ last_call' = Call("remove_validator", validator_id, 0, TRUE)
         /\ UNCHANGED <<current_height, best_block_hash, total_chain_work,
                        current_difficulty, now>>
    ELSE /\ last_call' = Call("remove_validator", validator_id, 0, FALSE)
         /\ UNCHANGED <<consensus_state, now, stake_hist>>

\* HybridConsensusEngine::update_stake
UpdateStake(validator_id, new_stake_amount) ==
    IF validator_id \in DOMAIN validators /\ validator_id \in DOMAIN stakes
    THEN /\ total_stake' = total_stake - stakes[validator_id].amount + new_stake_amount
         /\ stakes' = [stakes EXCEPT ![validator_id].amount = new_stake_amount]
         /\ validators' = [validators EXCEPT
                              ![validator_id].stake_amount = new_stake_amount]
         /\ last_call' = Call("update_stake", validator_id, new_stake_amount, TRUE)
         /\ UNCHANGED <<current_height, best_block_hash, total_chain_work,
                        current_difficulty, now, stake_hist>>
    ELSE /\ last_call' = Call("update_stake", validator_id, new_stake_amount, FALSE)
         /\ UNCHANGED <<consensus_state, now, stake_hist>>

\* update_validator_stakes that unlocks one block late
update_validator_stakes_Late(height) ==
    [id \in DOMAIN stakes |->
        IF stakes[id].is_locked /\ height > stakes[id].lock_height
        THEN [stakes[id] EXCEPT !.is_locked = FALSE]
        ELSE stakes[id]]

\* HybridConsensusEngine::update_validator_stakes
update_validator_stakes(height) ==
    [id \in DOMAIN stakes |->
        IF stakes[id].is_locked /\ height >= stakes[id].lock_height
        THEN [stakes[id] EXCEPT !.is_locked = FALSE]
        ELSE stakes[id]]

\* HybridConsensusEngine::update_consensus_state, with
\* adjust_consensus_parameters and update_validator_stakes
UpdateConsensusState(block_hash, block_height) ==
    /\ current_height' = block_height
    /\ best_block_hash' = block_hash
    /\ IF should_adjust_difficulty(block_height)
       THEN \E new_difficulty_bits \in RawBits :
               current_difficulty' =
                   calculate_hybrid_difficulty(current_difficulty,
                                               new_difficulty_bits, "equal")
       ELSE UNCHANGED current_difficulty
    /\ stakes' = update_validator_stakes(block_height)
    /\ stake_hist' = [id \in DOMAIN stake_hist |->
            [stake_hist[id] EXCEPT
                !.increasing = @ /\ block_height >= current_height]]
    /\ last_call' = Call("update_consensus_state", block_hash, block_height, TRUE)
    /\ UNCHANGED <<total_chain_work, validators, total_stake, now>>

\* HybridConsensusEngine::penalize_validator
PenalizeValidator(validator_id, penalty_points) ==
    /\ IF validator_id \in DOMAIN validators
       THEN LET v == validators[validator_id]
                \* std::max(0u, reputation_score - penalty_points) on uint32_t
                rep == U32Max(U32(0), U32Sub(v.reputation_score, U32(penalty_points)))
            IN  validators' = [validators EXCEPT ![validator_id] =
                    [v EXCEPT !.reputation_score = rep,
                              !.missed_slots = @ + 1,
                              !.is_active = IF U32Lt(rep, U32(10)) THEN FALSE ELSE @]]
       ELSE UNCHANGED validators
    /\ last_call' = Call("penalize_validator", validator_id, penalty_points, TRUE)
    /\ UNCHANGED <<current_height, best_block_hash, total_chain_work,
                   current_difficulty, stakes, total_stake, now, stake_hist>>

\* HybridConsensusEngine::reward_validator
RewardValidator(validator_id, reward_points) ==
    /\ IF validator_id \in DOMAIN validators
       THEN LET v == validators[validator_id]
                \* std::min(100u, reputation_score + reward_points) on uint32_t
                rep == U32Min(U32(100), U32Add(v.reputation_score, U32(reward_points)))
            IN  validators' = [validators EXCEPT ![validator_id] =
                    [v EXCEPT !.reputation_score = rep,
                              !.is_active = IF U32Leq(U32(50), rep) /\ ~@
                                            THEN TRUE ELSE @]]
       ELSE UNCHANGED validators
    /\ last_call' = Call("reward_validator", validator_id, reward_points, TRUE)
    /\ UNCHANGED <<current_height, best_block_hash, total_chain_work,
                   current_difficulty, stakes, total_stake, now, stake_hist>>

\* HybridConsensusEngine::create_pos_block
CreatePosBlock(validator_id) ==
    /\ IF validator_id \in DOMAIN validators
       THEN /\ validators' = [validators EXCEPT
                                ![validator_id].last_block_time = now,
                                ![validator_id].total_blocks_created = @ + 1]
            /\ last_call' = Call("create_pos_block", validator_id, now, TRUE)
       ELSE /\ UNCHANGED validators
            /\ last_call' = Call("create_pos_block", validator_id, now, FALSE)
    /\ UNCHANGED <<current_height, best_block_hash, total_chain_work,
                   current_difficulty, stakes, total_stake, now, stake_hist>>

\* a call of select_validator_by_stake; `ret` holds the id it returned
SelectValidator(slot_time, previous_block_hash) ==
    /\ last_call' = [op |-> "select_validator_by_stake",
                     id |-> previous_block_hash,
                     arg |-> slot_time,
                     ret |-> select_validator_by_stake(slot_time, previous_block_hash)]
    /\ UNCHANGED <<consensus_state, now, stake_hist>>

\* the system clock advances to a later reading
Tick ==
    /\ \E t \in ClockTimes : t > now /\ now' = t
    /\ UNCHANGED <<consensus_state, last_call, stake_hist>>

(***************************************************************************)
(* Blockchain: hashes, transactions, blocks                                *)
(***************************************************************************)
\* A Hash256 of the ledger is written <<b0, low>>: b0 is its first (most
\* significant) byte, low the value of its last two bytes; the 29 bytes in
\* between are zero.
NullHash256 == <<0, 0>>

HashBytes(h) ==
    [i \in 1..32 |-> IF i = 1 THEN h[1]
                     ELSE IF i = 31 THEN (h[2] \div 256) % 256
                     ELSE IF i = 32 THEN h[2] % 256
                     ELSE 0]

\* std::memcmp(a, b, 32) <= 0
RECURSIVE MemcmpLeqFrom(_, _, _)
MemcmpLeqFrom(a, b, i) ==
    IF i > Len(a) THEN TRUE
    ELSE IF a[i] # b[i] THEN a[i] < b[i]
    ELSE MemcmpLeqFrom(a, b, i + 1)

\* BlockHeader::get_target: the 32 target bytes of a compact target
get_target(difficulty_target) ==
    LET exponent == difficulty_target \div (256 * 256 * 256)
        mantissa == difficulty_target % (128 * 256 * 256)
        start_byte == 32 - exponent
    IN  IF exponent <= 3 \/ exponent > 32
        THEN [i \in 1..32 |-> 0]
        ELSE [i \in 1..32 |->
                IF i - 1 = start_byte + 2 THEN mantissa % 256
                ELSE IF i - 1 = start_byte + 1 THEN (mantissa \div 256) % 256
                ELSE IF i - 1 = start_byte THEN (mantissa \div (256 * 256)) % 256
                ELSE 0]

\* the prev_output_index of a coinbase input, 0xFFFFFFFF
COINBASE_OUTPUT_INDEX == <<LimbBase - 1, LimbBase - 1>>

DUST_THRESHOLD == 546

COINBASE_MATURITY == 100

\* the value of a coinbase output and of the outputs of the spends below
CoinbaseValue == 5000

\* TxInput::is_coinbase
TxInput_is_coinbase(input) ==
    input.prev_tx_hash = NullHash256 /\ input.prev_output_index = COINBASE_OUTPUT_INDEX

\* Transaction::is_coinbase
is_coinbase(tx) ==
    Len(tx.inputs) = 1 /\ TxInput_is_coinbase(tx.inputs[1])

\* TxOutput::is_valid
TxOutput_is_valid(output) ==
    output.value > 0 /\ output.value >= DUST_THRESHOLD /\ output.script_len > 0

\* Transaction::is_valid; the transactions of the model serialise far below
\* MAX_TRANSACTION_SIZE
Transaction_is_valid(tx) ==
    /\ tx.inputs # <<>>
    /\ tx.outputs # <<>>
    /\ \A i \in 1..Len(tx.inputs) :
          ~(~is_coinbase(tx) /\ TxInput_is_coinbase(tx.inputs[i]))
    /\ \A i \in 1..Len(tx.outputs) : TxOutput_is_valid(tx.outputs[i])
    /\ (tx.witnesses # 0 => tx.witnesses = Len(tx.inputs))

In(h, i) == [prev_tx_hash |-> h, prev_output_index |-> U32(i)]

Out(v) == [value |-> v, script_len |-> 25]

\* Transaction::create_coinbase_transaction; k tells coinbases apart
Coinbase(k) ==
    [hash |-> <<0, 3000 + k>>,
     inputs |-> <<[prev_tx_hash |-> NullHash256,
                   prev_output_index |-> COINBASE_OUTPUT_INDEX]>>,
     outputs |-> <<Out(CoinbaseValue)>>,
     witnesses |-> 0]

\* the coinbase of the block at height h of the initial chain
BaseCoinbase(h) ==
    [hash |-> <<0, 1000 + h>>,
     inputs |-> <<[prev_tx_hash |-> NullHash256,
                   prev_output_index |-> COINBASE_OUTPUT_INDEX]>>,
     outputs |-> <<Out(CoinbaseValue)>>,
     witnesses |-> 0]

\* spends the coinbase of height 0
SpendGenesis ==
    [hash |-> <<0, 4001>>, inputs |-> <<In(<<0, 1000>>, 0)>>,
     outputs |-> <<Out(3000), Out(1500)>>, witnesses |-> 0]

\* spends the first output of SpendGenesis
SpendChild ==
    [hash |-> <<0, 4002>>, inputs |-> <<In(<<0, 4001>>, 0)>>,
     outputs |-> <<Out(2500)>>, witnesses |-> 0]

\* spends an output that no transaction created
SpendMissing ==
    [hash |-> <<0, 4003>>, inputs |-> <<In(<<0, 4999>>, 0)>>,
     outputs |-> <<Out(1000)>>, witnesses |-> 0]

\* spends the second output of SpendGenesis and pays out more than it holds
Overspend ==
    [hash |-> <<0, 4004>>, inputs |-> <<In(<<0, 4001>>, 1)>>,
     outputs |-> <<Out(2000)>>, witnesses |-> 0]

\* pays an output below the dust threshold
DustTx ==
    [hash |-> <<0, 4005>>, inputs |-> <<In(<<0, 4001>>, 1)>>,
     outputs |-> <<Out(100)>>, witnesses |-> 0]

\* names the outpoint of the coinbase of height 0 in two inputs
DoubleInput ==
    [hash |-> <<0, 4006>>, inputs |-> <<In(<<0, 1000>>, 0), In(<<0, 1000>>, 0)>>,
     outputs |-> <<Out(3000)>>, witnesses |-> 0]

\* the transaction lists blocks are assembled from
TxLists ==
    << <<Coinbase(1)>>,
       <<Coinbase(2)>>,
       <<Coinbase(1), SpendGenesis, SpendChild>>,
       <<Coinbase(2), SpendGenesis, SpendMissing>>,
       <<Coinbase(3), SpendGenesis, Overspend>>,
       <<Coinbase(3), SpendMissing>>,
       <<SpendGenesis>>,
       <<Coinbase(1), DustTx>>,
       <<>>,
       <<Coinbase(1), DoubleInput>> >>

\* Transaction::get_hash
Transaction_get_hash(tx) == tx.hash

\* MerkleTree::build_tree, one level: pairs are hashed together, an odd last
\* element is hashed with itself
RECURSIVE MerkleLevel(_)
MerkleLevel(level) ==
    IF level = <<>> THEN <<>>
    ELSE IF Len(level) = 1 THEN << <<"node", level[1], level[1]>> >>
    ELSE << <<"node", level[1], level[2]>> >> \o MerkleLevel(SubSeq(level, 3, Len(level)))

RECURSIVE build_tree(_)
build_tree(level) ==
    IF Len(level) > 1 THEN build_tree(MerkleLevel(level)) ELSE level

\* Block::calculate_merkle_root; digests of the tree are kept as terms:
\* <<"leaf", hash>> and <<"node", left, right>>, <<>> the zero hash
calculate_merkle_root(transactions) ==
    IF transactions = <<>> THEN <<>>
    ELSE build_tree([i \in 1..Len(transactions) |->
                        <<"leaf", Transaction_get_hash(transactions[i])>>])[1]

\* the tag of a Merkle root in the header digest below
MerkleTag(root) ==
    IF root = <<>> THEN 0
    ELSE IF root[1] = "leaf" THEN root[2][2]
    ELSE IF \E i \in 1..Len(TxLists) : calculate_merkle_root(TxLists[i]) = root
    THEN 7000 + (CHOOSE i \in 1..Len(TxLists) : calculate_merkle_root(TxLists[i]) = root)
    ELSE 0

\* BlockHeader::calculate_hash, the double SHA-256 of the header: a digest
\* fixed by the header's fields; nonce 0 stands for a nonce whose digest
\* starts with a zero byte, nonce n > 0 for one whose digest starts with n
calculate_hash(header) ==
    <<header.nonce,
      (header.prev_block_hash[2] * 31 + MerkleTag(header.merkle_root)) % LimbBase>>

\* Block::get_hash
get_hash(block) == calculate_hash(block.header)

\* BlockHeader::meets_difficulty_target
meets_difficulty_target(header) ==
    MemcmpLeqFrom(HashBytes(calculate_hash(header)),
                  get_target(header.difficulty_target), 1)

\* Block::validate_structure
validate_structure(block) ==
    /\ block.transactions # <<>>
    /\ is_coinbase(block.transactions[1])
    /\ \A i \in 2..Len(block.transactions) : ~is_coinbase(block.transactions[i])
    /\ \A i \in 1..Len(block.transactions) : Transaction_is_valid(block.transactions[i])

\* Block::validate_merkle_root
validate_merkle_root(block) ==
    block.header.merkle_root = calculate_merkle_root(block.transactions)

\* Block::validate_proof_of_work
validate_proof_of_work(block) == meets_difficulty_target(block.header)

\* Block::is_valid
Block_is_valid(block) ==
    validate_structure(block) /\ validate_merkle_root(block) /\ validate_proof_of_work(block)

\* a block as a miner or a peer hands it over; merkle_ok tells whether
\* update_merkle_root was run on it
MakeBlock(prev_block_hash, transactions, difficulty_target, nonce, merkle_ok) ==
    [header |-> [prev_block_hash |-> prev_block_hash,
                 merkle_root |-> IF merkle_ok THEN calculate_merkle_root(transactions)
                                 ELSE <<>>,
                 difficulty_target |-> difficulty_target,
                 nonce |-> nonce,
                 height |-> 0],
     transactions |-> transactions]

(***************************************************************************)
(* UTXOSet (declared in transaction.hpp; apply_transaction follows the     *)
(* specification of the UTXO set)                                          *)
(***************************************************************************)
OutPoint(tx_hash, output_index) == <<tx_hash, output_index>>

InputOutPoints(tx) ==
    [i \in 1..Len(tx.inputs) |->
        OutPoint(tx.inputs[i].prev_tx_hash, tx.inputs[i].prev_output_index)]

RECURSIVE SumValues(_, _)
SumValues(values, i) ==
    IF i > Len(values) THEN 0 ELSE values[i] + SumValues(values, i + 1)

\* UTXOSet::apply_transaction: inputs must exist (and be mature when they
\* come from a coinbase), outputs may not exceed inputs, then the inputs are
\* removed and one UTXO per output is added; on any failure nothing of the
\* transaction stays applied.  Result: [ok, utxos]
UTXOSet_apply_transaction(utxos, tx, block_height) ==
    LET coinbase == is_coinbase(tx)
        spent == IF coinbase THEN <<>> ELSE InputOutPoints(tx)
        inputs_ok ==
            /\ \A i \in 1..Len(spent) :
                  /\ spent[i] \in DOMAIN utxos
                  /\ (utxos[spent[i]].is_coinbase =>
                        block_height - utxos[spent[i]].block_height >= COINBASE_MATURITY)
            /\ \A i, j \in 1..Len(spent) : i # j => spent[i] # spent[j]
        in_sum == SumValues([i \in 1..Len(spent) |-> utxos[spent[i]].output.value], 1)
        out_sum == SumValues([i \in 1..Len(tx.outputs) |-> tx.outputs[i].value], 1)
        kept == DOMAIN utxos \ {spent[i] : i \in 1..Len(spent)}
        created == {OutPoint(Transaction_get_hash(tx), U32(i - 1)) : i \in 1..Len(tx.outputs)}
        applied ==
            [o \in kept \cup created |->
                IF o \in created
                THEN [tx_hash |-> o[1],
                      output_index |-> o[2],
                      output |-> tx.outputs[o[2][1] + 1],
                      block_height |-> block_height,
                      is_coinbase |-> coinbase]
                ELSE utxos[o]]
    IN  IF /\ inputs_ok
           /\ (coinbase \/ out_sum <= in_sum)
           /\ created \cap kept = {}
        THEN [ok |-> TRUE, utxos |-> applied]
        ELSE [ok |-> FALSE, utxos |-> utxos]

\* Block::apply_to_utxo_set: the transactions are applied in order; the loop
\* returns at the first one that fails and leaves the earlier ones applied
RECURSIVE apply_to_utxo_set(_, _, _, _)
apply_to_utxo_set(transactions, utxos, block_height, i) ==
    IF i > Len(transactions) THEN [ok |-> TRUE, utxos |-> utxos]
    ELSE LET r == UTXOSet_apply_transaction(utxos, transactions[i], block_height)
         IN  IF ~r.ok THEN [ok |-> FALSE, utxos |-> utxos]
             ELSE apply_to_utxo_set(transactions, r.utxos, block_height, i + 1)

(***************************************************************************)
(* Blockchain                                                              *)
(***************************************************************************)
\* Blockchain::calculate_next_difficulty
Blockchain_calculate_next_difficulty == current_difficulty_target

\* Blockchain::Blockchain
ChainInit ==
    /\ blocks = <<>>
    /\ utxo_set = <<>>
    /\ current_difficulty_target = InitialDifficulty
    /\ chain_call = [op |-> "none", ret |-> FALSE]

\* Blockchain::add_block
AddBlock(block) ==
    IF ~Block_is_valid(block)
    THEN /\ chain_call' = [op |-> "add_block", ret |-> FALSE, block |-> block]
         /\ UNCHANGED chain_state
    ELSE IF /\ blocks # <<>>
            /\ block.header.prev_block_hash # get_hash(blocks[Len(blocks)])
    THEN /\ chain_call' = [op |-> "add_block", ret |-> FALSE, block |-> block]
         /\ UNCHANGED chain_state
    ELSE LET applied == apply_to_utxo_set(block.transactions, utxo_set, Len(blocks), 1)
         IN  /\ utxo_set' = applied.utxos
             /\ IF ~applied.ok
                THEN /\ chain_call' = [op |-> "add_block", ret |-> FALSE, block |-> block]
                     /\ UNCHANGED <<blocks, current_difficulty_target>>
                ELSE /\ blocks' = Append(blocks, block)
                     /\ current_difficulty_target' =
                           IF Len(blocks') % DIFFICULTY_ADJUSTMENT_INTERVAL = 0
                           THEN Blockchain_calculate_next_difficulty
                           ELSE current_difficulty_target
                     /\ chain_call' = [op |-> "add_block", ret |-> TRUE, block |-> block]

\* the chain the ledger holds after COINBASE_MATURITY blocks that carry only a
\* coinbase: the genesis block and the blocks mined on it
BaseHeader(prev_block_hash, h) ==
    [prev_block_hash |-> prev_block_hash,
     merkle_root |-> calculate_merkle_root(<<BaseCoinbase(h)>>),
     difficulty_target |-> InitialDifficulty,
     nonce |-> 0,
     height |-> 0]

\* the hashes of the blocks of the initial chain, from the genesis block up
RECURSIVE BuildBaseHashes(_)
BuildBaseHashes(hs) ==
    IF Len(hs) >= COINBASE_MATURITY THEN hs
    ELSE BuildBaseHashes(Append(hs,
            calculate_hash(BaseHeader(IF hs = <<>> THEN NullHash256 ELSE hs[Len(hs)],
                                      Len(hs)))))

BaseHashes == BuildBaseHashes(<<>>)

BaseBlock(h) ==
    [header |-> BaseHeader(IF h = 0 THEN NullHash256 ELSE BaseHashes[h], h),
     transactions |-> <<BaseCoinbase(h)>>]

BaseChain == [k \in 1..COINBASE_MATURITY |-> BaseBlock(k - 1)]

BaseUtxos ==
    [o \in {OutPoint(Transaction_get_hash(BaseCoinbase(h)), U32(0)) :
                h \in 0..(COINBASE_MATURITY - 1)} |->
        [tx_hash |-> o[1],
         output_index |-> o[2],
         output |-> Out(CoinbaseValue),
         block_height |-> o[1][2] - 1000,
         is_coinbase |-> TRUE]]

\* Blockchain::initialize_genesis
InitializeGenesis ==
    /\ utxo_set' = apply_to_utxo_set(BaseBlock(0).transactions, utxo_set, 0, 1).utxos
    /\ blocks' = Append(blocks, BaseBlock(0))
    /\ chain_call' = [op |-> "initialize_genesis", ret |-> TRUE]
    /\ UNCHANGED current_difficulty_target

(***************************************************************************)
(* Storage keys                                                            *)
(***************************************************************************)
\* the character codes of the hexadecimal and decimal digits
HexChar(d) == IF d < 10 THEN 48 + d ELSE 97 + (d - 10)

\* operator<< of an int under std::hex: no leading zeros
RECURSIVE HexDigits(_)
HexDigits(n) ==
    IF n < 16 THEN <<HexChar(n)>> ELSE HexDigits(n \div 16) \o <<HexChar(n % 16)>>

\* operator<< of a uint32_t under std::hex
HexU32(u) ==
    IF u[2] = 0 THEN HexDigits(u[1])
    ELSE LET low == HexDigits(u[1])
         IN  HexDigits(u[2]) \o [i \in 1..(4 - Len(low)) |-> 48] \o low

\* std::to_string of a uint32_t
RECURSIVE DecU32(_)
DecU32(u) ==
    IF u[2] = 0 /\ u[1] < 10 THEN <<48 + u[1]>>
    ELSE LET t == (u[2] % 10) * LimbBase + u[1]
         IN  DecU32(<<t \div 10, u[2] \div 10>>) \o <<48 + (t % 10)>>

RECURSIVE HexOfBytes(_, _)
HexOfBytes(bytes, i) ==
    IF i > Len(bytes) THEN <<>> ELSE HexDigits(bytes[i]) \o HexOfBytes(bytes, i + 1)

\* MemoryStorage::make_utxo_key: the bytes of the hash in hex, ':' and the
\* index (std::hex stays set on the stream)
MemoryStorage_make_utxo_key(tx_hash, output_index) ==
    HexOfBytes(HashBytes(tx_hash), 1) \o <<58>> \o HexU32(output_index)

\* LevelDBStorage::make_utxo_key: "u:", the raw bytes, ':' and the index
LevelDBStorage_make_utxo_key(tx_hash, output_index) ==
    <<117, 58>> \o HashBytes(tx_hash) \o <<58>> \o DecU32(output_index)

\* UTXOManager::make_cache_key
make_cache_key(tx_hash, output_index) ==
    HexOfBytes(HashBytes(tx_hash), 1) \o <<58>> \o HexU32(output_index)

\* the keys MemoryStorage and UTXOManager derive for two outpoints
MakeUtxoKeys(a, b) ==
    fn_call' = [op |-> "make_utxo_key", a |-> a, b |-> b,
                key_a |-> MemoryStorage_make_utxo_key(a[1], a[2]),
                key_b |-> MemoryStorage_make_utxo_key(b[1], b[2]),
                cache_key_a |-> make_cache_key(a[1], a[2]),
                cache_key_b |-> make_cache_key(b[1], b[2])]

(***************************************************************************)
(* IBlockchainStorage: MemoryStorage and LevelDBStorage                    *)
(***************************************************************************)
\* the storage and the UTXO cache as one value; io numbers the database
\* write, counted from the next one, that fails (0: none fails)
Storage(io) ==
    [blocks_ |-> blocks_,
     height_to_hash_ |-> height_to_hash_,
     transactions_ |-> transactions_,
     utxos_ |-> utxos_,
     best_block_hash_ |-> best_block_hash_,
     utxo_cache_ |-> utxo_cache_,
     io |-> io]

\* leveldb::DB::Put, Delete or Write: [ok, st]
DbWrite(st) ==
    [ok |-> st.io # 1, st |-> [st EXCEPT !.io = IF @ > 0 THEN @ - 1 ELSE 0]]

Result(res, st) == [res |-> res, st |-> st]

make_utxo_key(be, tx_hash, output_index) ==
    IF be = "memory" THEN MemoryStorage_make_utxo_key(tx_hash, output_index)
    ELSE LevelDBStorage_make_utxo_key(tx_hash, output_index)

\* MemoryStorage::store_block, LevelDBStorage::store_block
store_block(be, st, block) ==
    IF be = "memory"
    THEN IF get_hash(block) \in DOMAIN st.blocks_
         THEN Result("ALREADY_EXISTS", st)
         ELSE Result("SUCCESS",
                     [st EXCEPT !.blocks_ = MapPut(@, get_hash(block), block),
                                !.height_to_hash_ =
                                    MapPut(@, block.header.height, get_hash(block))])
    ELSE LET w1 == DbWrite(st)
             st1 == [w1.st EXCEPT !.blocks_ = MapPut(@, get_hash(block), block)]
             w2 == DbWrite(st1)
         IN  IF ~w1.ok THEN Result("DATABASE_ERROR", w1.st)
             ELSE IF ~w2.ok THEN Result("DATABASE_ERROR", w2.st)
             ELSE Result("SUCCESS",
                         [w2.st EXCEPT !.height_to_hash_ =
                                    MapPut(@, block.header.height, get_hash(block))])

\* MemoryStorage::store_transaction, LevelDBStorage::store_transaction
store_transaction(be, st, tx) ==
    IF be = "memory"
    THEN IF Transaction_get_hash(tx) \in DOMAIN st.transactions_
         THEN Result("ALREADY_EXISTS", st)
         ELSE Result("SUCCESS",
                     [st EXCEPT !.transactions_ = MapPut(@, Transaction_get_hash(tx), tx)])
    ELSE Result("SUCCESS", st)

\* MemoryStorage::add_utxo, LevelDBStorage::add_utxo
Storage_add_utxo(be, st, tx_hash, output_index, utxo) ==
    LET key == make_utxo_key(be, tx_hash, output_index)
    IN  IF be = "memory"
        THEN IF key \in DOMAIN st.utxos_
             THEN Result("ALREADY_EXISTS", st)
             ELSE Result("SUCCESS", [st EXCEPT !.utxos_ = MapPut(@, key, utxo)])
        ELSE LET w == DbWrite(st)
             IN  IF ~w.ok THEN Result("DATABASE_ERROR", w.st)
                 ELSE Result("SUCCESS", [w.st EXCEPT !.utxos_ = MapPut(@, key, utxo)])

\* MemoryStorage::remove_utxo, LevelDBStorage::remove_utxo
Storage_remove_utxo(be, st, tx_hash, output_index) ==
    LET key == make_utxo_key(be, tx_hash, output_index)
    IN  IF be = "memory"
        THEN IF key \notin DOMAIN st.utxos_
             THEN Result("NOT_FOUND", st)
             ELSE Result("SUCCESS", [st EXCEPT !.utxos_ = MapErase(@, key)])
        ELSE LET w == DbWrite(st)
             IN  IF ~w.ok THEN Result("DATABASE_ERROR", w.st)
                 ELSE Result("SUCCESS", [w.st EXCEPT !.utxos_ = MapErase(@, key)])

\* MemoryStorage::set_best_block_hash, LevelDBStorage::set_best_block_hash
set_best_block_hash(be, st, block_hash) ==
    IF be = "memory"
    THEN Result("SUCCESS", [st EXCEPT !.best_block_hash_ = block_hash])
    ELSE Result("SUCCESS", st)

\* MemoryStorage::commit_batch, LevelDBStorage::commit_batch (the batch is
\* set when store_block_atomic commits, and nothing was ever added to it)
commit_batch(be, st) ==
    IF be = "memory" THEN Result("SUCCESS", st)
    ELSE LET w == DbWrite(st)
         IN  Result(IF w.ok THEN "SUCCESS" ELSE "DATABASE_ERROR", w.st)

(***************************************************************************)
(* UTXOManager (the cache stays far below cache_size_limit_)               *)
(***************************************************************************)
\* UTXOManager::add_utxo once the storage has answered with r: the entry
\* is put into the cache only after the storage took it
CacheAdded(r, tx_hash, output_index, utxo) ==
    IF r.res # "SUCCESS" THEN [ok |-> FALSE, st |-> r.st]
    ELSE [ok |-> TRUE,
          st |-> [r.st EXCEPT !.utxo_cache_ =
                     MapPut(@, make_cache_key(tx_hash, output_index), utxo)]]

UTXOEntryOf(tx, output_index, block_height) ==
    [tx_hash |-> Transaction_get_hash(tx),
     output_index |-> U32(output_index),
     output |-> tx.outputs[output_index + 1],
     block_height |-> block_height,
     is_coinbase |-> \/ tx.inputs = <<>>
                     \/ /\ Len(tx.inputs) = 1
                        /\ tx.inputs[1].prev_tx_hash = NullHash256]

\* UTXOManager::add_utxo: [ok, st]
UTXOManager_add_utxo(be, st, tx, output_index, block_height) ==
    IF output_index >= Len(tx.outputs) THEN [ok |-> FALSE, st |-> st]
    ELSE CacheAdded(Storage_add_utxo(be, st, Transaction_get_hash(tx), U32(output_index),
                                     UTXOEntryOf(tx, output_index, block_height)),
                    Transaction_get_hash(tx), U32(output_index),
                    UTXOEntryOf(tx, output_index, block_height))

\* UTXOManager::remove_utxo once the storage has answered with r: NOT_FOUND
\* counts as done
CacheRemoved(r, tx_hash, output_index) ==
    IF r.res # "SUCCESS" /\ r.res # "NOT_FOUND" THEN [ok |-> FALSE, st |-> r.st]
    ELSE [ok |-> TRUE,
          st |-> [r.st EXCEPT !.utxo_cache_ =
                     MapErase(@, make_cache_key(tx_hash, output_index))]]

\* UTXOManager::remove_utxo: [ok, st]
UTXOManager_remove_utxo(be, st, tx_hash, output_index) ==
    CacheRemoved(Storage_remove_utxo(be, st, tx_hash, output_index), tx_hash, output_index)

(***************************************************************************)
(* BlockchainStorageManager                                                *)
(***************************************************************************)
\* store_block_atomic, the loop over the inputs of one transaction; r is
\* the outcome so far
RECURSIVE RemoveSpent(_, _, _, _)
RemoveSpent(be, r, inputs, i) ==
    IF ~r.ok \/ i > Len(inputs) THEN r
    ELSE RemoveSpent(be,
                     UTXOManager_remove_utxo(be, r.st, inputs[i].prev_tx_hash,
                                             inputs[i].prev_output_index),
                     inputs, i + 1)

\* store_block_atomic, the loop over the outputs of one transaction
RECURSIVE AddOutputs(_, _, _, _, _)
AddOutputs(be, r, tx, height, output_idx) ==
    IF ~r.ok \/ output_idx >= Len(tx.outputs) THEN r
    ELSE AddOutputs(be, UTXOManager_add_utxo(be, r.st, tx, output_idx, height),
                    tx, height, output_idx + 1)

Stored(r) == [ok |-> r.res = "SUCCESS", st |-> r.st]

\* store_block_atomic, the body of the loop over the transactions: store
\* the transaction, remove what it spends unless it is the first of the
\* block, add its outputs
ProcessTransaction(be, r, tx, height, tx_idx) ==
    AddOutputs(be,
               IF tx_idx > 0
               THEN RemoveSpent(be, Stored(store_transaction(be, r.st, tx)), tx.inputs, 1)
               ELSE Stored(store_transaction(be, r.st, tx)),
               tx, height, 0)

\* store_block_atomic, the loop over the transactions of the block
RECURSIVE ProcessTransactions(_, _, _, _, _)
ProcessTransactions(be, r, transactions, height, tx_idx) ==
    IF ~r.ok \/ tx_idx >= Len(transactions) THEN r
    ELSE ProcessTransactions(be,
                             ProcessTransaction(be, r, transactions[tx_idx + 1],
                                                height, tx_idx),
                             transactions, height, tx_idx + 1)

\* store_block_atomic, its end: after a failure rollback_batch and false
\* (rollback_batch leaves the stored data as it is: a no-op in
\* MemoryStorage, the empty batch dropped in LevelDBStorage); else the best
\* block is set and the batch committed
Finish(be, p, block_hash) ==
    IF ~p.ok THEN [ret |-> FALSE, st |-> p.st]
    ELSE [ret |-> commit_batch(be, set_best_block_hash(be, p.st, block_hash).st).res
                      = "SUCCESS",
          st |-> commit_batch(be, set_best_block_hash(be, p.st, block_hash).st).st]

\* BlockchainStorageManager::store_block_atomic once initialized_ holds:
\* [ret, st]; begin_batch succeeds for both storages
store_block_atomic(be, st, block, height) ==
    Finish(be,
           ProcessTransactions(be, Stored(store_block(be, st, block)),
                               block.transactions, height, 0),
           get_hash(block))

StoreCall(op, block_hash, transactions, height, ret) ==
    [op |-> op, block_hash |-> block_hash, transactions |-> transactions,
     height |-> height, ret |-> ret]

\* BlockchainStorageManager::BlockchainStorageManager with an empty storage
\* of kind be behind it
StoreInit(be) ==
    /\ backend = be
    /\ initialized_ = FALSE
    /\ blocks_ = <<>>
    /\ height_to_hash_ = <<>>
    /\ transactions_ = <<>>
    /\ utxos_ = <<>>
    /\ best_block_hash_ = NullHash256
    /\ utxo_cache_ = <<>>
    /\ current_batch = FALSE
    /\ store_call = StoreCall("none", NullHash256, <<>>, 0, FALSE)
    /\ store_before = [Storage(0) EXCEPT !.io = 0]

\* BlockchainStorageManager::initialize; ok is the outcome of
\* LevelDBStorage::initialize (DATABASE_ERROR in a build without LevelDB,
\* IO_ERROR when the directory cannot be made)
Initialize(ok) ==
    /\ initialized_' = (initialized_ \/ backend = "memory" \/ ok)
    /\ store_call' = StoreCall("initialize", NullHash256, <<>>, 0, initialized_')
    /\ UNCHANGED <<backend, storage_state, current_batch, store_before>>

\* store_block_atomic leaves the storage and the cache as r.st
StorageBecomes(r) ==
    /\ blocks_' = r.st.blocks_
    /\ height_to_hash_' = r.st.height_to_hash_
    /\ transactions_' = r.st.transactions_
    /\ utxos_' = r.st.utxos_
    /\ best_block_hash_' = r.st.best_block_hash_
    /\ utxo_cache_' = r.st.utxo_cache_

\* BlockchainStorageManager::store_block_atomic
StoreBlockAtomic(block, height, io) ==
    /\ store_before' = Storage(0)
    /\ UNCHANGED <<backend, initialized_, current_batch>>
    /\ IF ~initialized_
       THEN /\ store_call' = StoreCall("store_block_atomic", get_hash(block),
                                       block.transactions, height, FALSE)
            /\ UNCHANGED storage_state
       ELSE /\ StorageBecomes(store_block_atomic(backend, Storage(io), block, height))
            /\ store_call' = StoreCall("store_block_atomic", get_hash(block),
                                       block.transactions, height,
                                       store_block_atomic(backend, Storage(io),
                                                          block, height).ret)

\* BlockchainStorageManager::remove_block_atomic
RemoveBlockAtomic(block_hash) ==
    /\ store_call' = StoreCall("remove_block_atomic", block_hash, <<>>, 0, TRUE)
    /\ UNCHANGED <<backend, initialized_, storage_state, current_batch, store_before>>

(***************************************************************************)
(* DifficultyAdjustment, HybridDifficultyAdjustment: calls                 *)
(***************************************************************************)
TARGET_BLOCK_TIME == 600

\* the default target_time_span
ExpectedTimeSpan == TARGET_BLOCK_TIME * DIFFICULTY_ADJUSTMENT_INTERVAL

\* DifficultyAdjustment::calculate_next_difficulty
CalculateNextDifficulty(cur_difficulty, actual_time_span, target_time_span) ==
    \E new_difficulty_bits \in RawBits :
        fn_call' = [op |-> "calculate_next_difficulty",
                    current_difficulty |-> cur_difficulty,
                    actual_time_span |-> actual_time_span,
                    target_time_span |-> target_time_span,
                    new_difficulty_bits |-> new_difficulty_bits,
                    pow_ratio |-> "equal",
                    ret |-> calculate_next_difficulty(new_difficulty_bits)]

\* HybridDifficultyAdjustment::calculate_hybrid_difficulty
CalculateHybridDifficulty(cur_difficulty, actual_time_span, target_time_span, pow_ratio) ==
    \E new_difficulty_bits \in RawBits :
        fn_call' = [op |-> "calculate_hybrid_difficulty",
                    current_difficulty |-> cur_difficulty,
                    actual_time_span |-> actual_time_span,
                    target_time_span |-> target_time_span,
                    new_difficulty_bits |-> new_difficulty_bits,
                    pow_ratio |-> pow_ratio,
                    ret |-> calculate_hybrid_difficulty(cur_difficulty,
                                new_difficulty_bits, pow_ratio)]

(***************************************************************************)
(* ProofOfWorkMiner: the target check                                      *)
(***************************************************************************)
\* a * 256^n
RECURSIVE BigShlBytes(_, _)
BigShlBytes(a, n) ==
    IF n = 0 THEN BigNorm(a)
    ELSE IF n >= 2 THEN BigShlBytes(<<0>> \o a, n - 2)
    ELSE BigShlBytes(BigMulFrom(a, 256, 1, 0), 0)

\* a modulo 2^64: a uint64_t keeps the four low limbs
BigTrunc64(a) == BigNorm(IF Len(a) > 4 THEN SubSeq(a, 1, 4) ELSE a)

\* the hashes of the model: all bytes zero but hash[0], hash[7] and hash[31]
PowHash(b0, b7, b31) ==
    [i \in 1..32 |-> IF i = 1 THEN b0 ELSE IF i = 8 THEN b7
                     ELSE IF i = 32 THEN b31 ELSE 0]

\* SHA256::double_hash of block_data ++ nonce, as a table: no nonce of
\* block_data 1 gives a hash whose first eight bytes are small
HashTable ==
    << <<PowHash(1, 255, 0), PowHash(0, 128, 7), PowHash(9, 255, 0), PowHash(0, 128, 1)>>,
       <<PowHash(0, 255, 0), PowHash(255, 0, 0), PowHash(0, 0, 1), PowHash(0, 0, 0)>> >>

\* ProofOfWorkMiner::compute_block_hash
compute_block_hash(block_data, nonce) ==
    HashTable[block_data][(nonce % Len(HashTable[block_data])) + 1]

\* what a shift of a uint64_t by 64 bits or more gives (undefined): the
\* shift by the count modulo 64, as the shift instructions of x86-64 and
\* AArch64 do, or 0
ShiftOutcomes == {"masked", "zero"}

\* ProofOfWorkMiner::bits_to_target, a uint64_t
bits_to_target(difficulty_bits, wide_shift) ==
    LET exponent == difficulty_bits \div (256 * 256 * 256)
        mantissa == difficulty_bits % (256 * 256 * 256)
        shift_bytes == exponent - 3
    IN  IF exponent <= 3
        THEN BigFromNat(mantissa \div (2 ^ (8 * (3 - exponent))))
        ELSE IF shift_bytes < 8
             THEN BigTrunc64(BigShlBytes(BigFromNat(mantissa), shift_bytes))
             ELSE IF wide_shift = "masked"
                  THEN BigTrunc64(BigShlBytes(BigFromNat(mantissa), shift_bytes % 8))
                  ELSE BigFromNat(0)

\* the uint64_t built from hash[7] .. hash[0], hash[0] least significant
hash_value(hash) == BigNorm([j \in 1..4 |-> hash[2 * j - 1] + 256 * hash[2 * j]])

\* ProofOfWorkMiner::meets_difficulty_target
Miner_meets_difficulty_target(hash, difficulty_bits, wide_shift) ==
    BigLeq(hash_value(hash), bits_to_target(difficulty_bits, wide_shift))

\* ProofOfWorkMiner::verify_proof_of_work
verify_proof_of_work(block_data, nonce, difficulty_target, wide_shift) ==
    Miner_meets_difficulty_target(compute_block_hash(block_data, nonce),
                                  difficulty_target, wide_shift)

VerifyProofOfWork(block_data, nonce, difficulty_target) ==
    \E wide_shift \in ShiftOutcomes :
        fn_call' = [op |-> "verify_proof_of_work",
                    block_data |-> block_data,
                    nonce |-> nonce,
                    difficulty_target |-> difficulty_target,
                    ret |-> verify_proof_of_work(block_data, nonce,
                                                 difficulty_target, wide_shift)]

(***************************************************************************)
(* ProofOfWorkMiner: mine_block, mine_block_parallel, stop_mining          *)
(* The calling thread, the mine_worker threads and the thread that calls   *)
(* stop_mining take steps in any order; every access to should_stop_ is a  *)
(* step of its own.                                                        *)
(***************************************************************************)
\* MiningResult{}: block_hash, a std::array, has no initializer
NoResult ==
    [success |-> FALSE, nonce |-> 0, block_hash |-> "indeterminate",
     hash_operations |-> 0]

\* a mine_worker run before the first test of its loop condition
NewWorker(start_nonce, nonce_range) ==
    [pc |-> "check", i |-> 0, start_nonce |-> start_nonce,
     nonce_range |-> nonce_range, result |-> NoResult]

AllWorkersDone == \A w \in DOMAIN workers : workers[w].pc = "done"

\* mine_block / mine_block_parallel is entered on a miner built with
\* thread_count threads; wide_shift is what the build makes of the shift in
\* bits_to_target
EnterMine(op, block_data, difficulty_target, max_iterations, thread_count, wide_shift) ==
    /\ miner.pc = "idle"
    /\ miner' = [pc |-> "entered", op |-> op, block_data |-> block_data,
                 difficulty_target |-> difficulty_target,
                 max_iterations |-> max_iterations,
                 thread_count |-> thread_count, wide_shift |-> wide_shift,
                 idx |-> 1, result |-> NoResult]
    /\ UNCHANGED <<should_stop_, workers, futures, stop_hist>>

\* should_stop_.store(false), the first statement of both functions
ResetStop ==
    /\ miner.pc = "entered"
    /\ should_stop_' = FALSE
    /\ miner' = [miner EXCEPT !.pc = "launch"]
    /\ UNCHANGED <<workers, futures, stop_hist>>

\* mine_block runs mine_worker(.., 0, iterations) itself;
\* mine_block_parallel starts thread_count_ workers through std::async
LaunchWorkers ==
    /\ miner.pc = "launch"
    /\ IF miner.op = "mine_block"
       THEN /\ workers' = <<NewWorker(0, miner.max_iterations)>>
            /\ futures' = <<>>
            /\ miner' = [miner EXCEPT !.pc = "inline"]
       ELSE LET iterations_per_thread == miner.max_iterations \div miner.thread_count
            IN  /\ workers' = [w \in 1..miner.thread_count |->
                                 NewWorker((w - 1) * iterations_per_thread,
                                           iterations_per_thread)]
                /\ futures' = [w \in 1..miner.thread_count |-> "valid"]
                /\ miner' = [miner EXCEPT !.pc = "poll"]
    /\ stop_hist' = [stop_hist EXCEPT !.tested = [w \in DOMAIN workers' |-> 0]]
    /\ UNCHANGED should_stop_

\* mine_worker: the loop condition  i < nonce_range && !should_stop_.load()
WorkerCheck(w) ==
    /\ w \in DOMAIN workers
    /\ workers[w].pc = "check"
    /\ workers' = [workers EXCEPT ![w].pc =
                      IF workers[w].i < workers[w].nonce_range /\ ~should_stop_
                      THEN "test" ELSE "done"]
    /\ UNCHANGED <<should_stop_, miner, futures, stop_hist>>

\* mine_worker: the loop body, one nonce tested
WorkerTest(w) ==
    /\ w \in DOMAIN workers
    /\ workers[w].pc = "test"
    /\ LET nonce == workers[w].start_nonce + workers[w].i
           hash == compute_block_hash(miner.block_data, nonce)
           hit == Miner_meets_difficulty_target(
                      hash, miner.difficulty_target, miner.wide_shift)
       IN  workers' = [workers EXCEPT ![w] =
               [@ EXCEPT !.result = [success |-> hit,
                                     nonce |-> IF hit THEN nonce ELSE 0,
                                     block_hash |-> IF hit THEN hash ELSE @.block_hash,
                                     hash_operations |-> @.hash_operations + 1],
                         !.i = IF hit THEN @ ELSE @ + 1,
                         !.pc = IF hit THEN "done" ELSE "check"]]
    /\ stop_hist' = IF stop_hist.requested
                    THEN [stop_hist EXCEPT !.tested[w] = @ + 1]
                    ELSE stop_hist
    /\ UNCHANGED <<should_stop_, miner, futures>>

\* mine_block: mine_worker has returned
ReturnInline ==
    /\ miner.pc = "inline"
    /\ AllWorkersDone
    /\ miner' = [miner EXCEPT !.pc = "returned", !.result = workers[1].result]
    /\ UNCHANGED <<should_stop_, workers, futures, stop_hist>>

\* what wait_for does on a future whose result was already taken by get()
\* (no shared state, undefined): it throws std::future_error, or it answers
\* that the future is not ready
WaitOutcomes == {"throw", "not_ready"}

\* mine_block_parallel: one pass of  for (auto& future : futures)
PollFuture(invalid_wait) ==
    /\ miner.pc = "poll"
    /\ miner.idx <= Len(futures)
    /\ IF futures[miner.idx] = "got"
       THEN /\ miner' = IF invalid_wait = "throw"
                        THEN [miner EXCEPT !.pc = "unwind"]
                        ELSE [miner EXCEPT !.idx = @ + 1]
            /\ UNCHANGED <<should_stop_, futures>>
       ELSE IF workers[miner.idx].pc = "done"
            THEN /\ futures' = [futures EXCEPT ![miner.idx] = "got"]
                 /\ IF workers[miner.idx].result.success
                    THEN /\ should_stop_' = TRUE
                         /\ miner' = [miner EXCEPT
                                !.pc = "join",
                                !.result = workers[miner.idx].result]
                    ELSE /\ miner' = [miner EXCEPT
                                !.idx = @ + 1,
                                !.result.hash_operations =
                                    @ + workers[miner.idx].result.hash_operations]
                         /\ UNCHANGED should_stop_
            ELSE /\ miner' = [miner EXCEPT !.idx = @ + 1]
                 /\ UNCHANGED <<should_stop_, futures>>
    /\ UNCHANGED <<workers, stop_hist>>

\* mine_block_parallel: after the pass,  if (should_stop_.load()) break;
\* otherwise sleep and start the next pass
EndOfPass ==
    /\ miner.pc = "poll"
    /\ miner.idx > Len(futures)
    /\ miner' = IF should_stop_ THEN [miner EXCEPT !.pc = "join"]
                ELSE [miner EXCEPT !.idx = 1]
    /\ UNCHANGED <<should_stop_, workers, futures, stop_hist>>

\* mine_block_parallel returns: the futures of std::async are destroyed,
\* which waits for their threads
Join ==
    /\ miner.pc = "join"
    /\ AllWorkersDone
    /\ miner' = [miner EXCEPT !.pc = "returned"]
    /\ UNCHANGED <<should_stop_, workers, futures, stop_hist>>

\* the exception leaves mine_block_parallel, destroying the futures
Unwind ==
    /\ miner.pc = "unwind"
    /\ AllWorkersDone
    /\ miner' = [miner EXCEPT !.pc = "threw"]
    /\ UNCHANGED <<should_stop_, workers, futures, stop_hist>>

\* ProofOfWorkMiner::stop_mining, called by another thread while the call
\* is in progress
StopMining ==
    /\ miner.pc \notin {"idle", "returned", "threw"}
    /\ ~stop_hist.requested
    /\ should_stop_' = TRUE
    /\ stop_hist' = [stop_hist EXCEPT !.requested = TRUE]
    /\ UNCHANGED <<miner, workers, futures>>

(***************************************************************************)
(* ProofOfWorkMiner: the nonce ranges of mine_block and mine_block_parallel *)
(***************************************************************************)
\* UINT32_MAX = 2^32 - 1 (two limbs)
UINT32_MAX == <<LimbBase - 1, LimbBase - 1>>

\* 2^32, one past the largest nonce
NonceSpaceEnd == <<0, 0, 1>>

\* quotient of a by d (d < 2^15), from the most significant limb down
RECURSIVE BigDivFrom(_, _, _, _)
BigDivFrom(a, d, i, rem) ==
    IF i = 0
    THEN <<>>
    ELSE LET cur == rem * LimbBase + a[i]
         IN  Append(BigDivFrom(a, d, i - 1, cur % d), cur \div d)

BigDivSmall(a, d) == BigNorm(BigDivFrom(a, d, Len(a), 0))

\* static_cast<uint32_t> of a uint64_t
BigTrunc32(a) == BigNorm(IF Len(a) > 2 THEN SubSeq(a, 1, 2) ELSE a)

\* mine_block: mine_worker(.., 0, static_cast<uint32_t>(iterations))
mine_block_range(max_iterations) ==
    LET iterations == IF BigIsZero(max_iterations) THEN UINT32_MAX ELSE max_iterations
    IN  <<[start_nonce |-> <<0>>, nonce_range |-> BigTrunc32(iterations)]>>

\* mine_block_parallel: the start_nonce and nonce_range of each worker
mine_block_parallel_ranges(max_iterations, thread_count) ==
    LET iterations_per_thread ==
            IF BigIsZero(max_iterations)
            THEN BigDivSmall(UINT32_MAX, thread_count)
            ELSE BigDivSmall(max_iterations, thread_count)
    IN  [w \in 1..thread_count |->
            [start_nonce |-> BigTrunc32(BigMulSmall(BigTrunc32(iterations_per_thread), w - 1)),
             nonce_range |-> BigTrunc32(iterations_per_thread)]]

MineBlockRange(max_iterations) ==
    fn_call' = [op |-> "mine_block", max_iterations |-> max_iterations,
                thread_count |-> 1, ranges |-> mine_block_range(max_iterations)]

MineBlockParallelRanges(max_iterations, thread_count) ==
    fn_call' = [op |-> "mine_block_parallel", max_iterations |-> max_iterations,
                thread_count |-> thread_count,
                ranges |-> mine_block_parallel_ranges(max_iterations, thread_count)]

(***************************************************************************)
(* Block rewards: HybridConsensusEngine::calculate_block_reward and        *)
(* validation::calculate_block_reward.  Heights are uint32_t values        *)
(* <<lo, hi>>, rewards are uint64_t values as limb sequences.              *)
(***************************************************************************)
GENESIS_BLOCK_REWARD == BigMulSmall(BigFromNat(500000000), 10)

HALVING_INTERVAL == 210000

\* uint64_t base_reward = 5000000000
InitialBaseReward == BigMulSmall(BigFromNat(500000000), 10)

\* the literal 210000 of the engine
EngineHalvingInterval == 210000

\* u / d of a uint32_t u = 2 * (hi * 2^15) + lo, for 2 <= d < 2^29
U32Div(u, d) ==
    LET half == u[2] * (LimbBase \div 2)
    IN  2 * (half \div d) + (2 * (half % d) + u[1]) \div d

\* a >> k of a uint64_t, for k < 64
RECURSIVE BigShr(_, _)
BigShr(a, k) == IF k = 0 \/ BigIsZero(a) THEN a ELSE BigShr(BigDivSmall(a, 2), k - 1)

\* base_reward >>= halvings: a shift of a uint64_t by 64 bits or more is
\* undefined and gives what wide_shift says
ShiftRight64(a, k, wide_shift) ==
    IF k < 64 THEN BigShr(a, k)
    ELSE IF wide_shift = "masked" THEN BigShr(a, k % 64)
    ELSE <<0>>

\* static_cast<uint64_t>(base_reward * 0.8): the double product of a value
\* below 2^33 and 0.8 is within 2^-21 of the exact 4 * base_reward / 5, so
\* its truncation is the integer quotient
TimesPointEight(a) == BigDivSmall(BigMulSmall(a, 4), 5)

\* HybridConsensusEngine::calculate_block_reward
calculate_block_reward(block_height, is_pow_block, wide_shift) ==
    LET halvings == U32Div(block_height, EngineHalvingInterval)
        base_reward == ShiftRight64(InitialBaseReward, halvings, wide_shift)
    IN  IF ~is_pow_block THEN TimesPointEight(base_reward) ELSE base_reward

\* validation::calculate_block_reward: the loop that halves the reward
RECURSIVE HalveFrom(_, _, _)
HalveFrom(reward, i, halvings) ==
    IF i < halvings /\ ~BigIsZero(reward)
    THEN HalveFrom(BigDivSmall(reward, 2), i + 1, halvings)
    ELSE reward

validation_calculate_block_reward(height) ==
    HalveFrom(GENESIS_BLOCK_REWARD, 0, U32Div(height, HALVING_INTERVAL))

CalculateBlockReward(block_height, is_pow_block, wide_shift) ==
    fn_call' = [op |-> "calculate_block_reward", block_height |-> block_height,
                is_pow_block |-> is_pow_block, wide_shift |-> wide_shift,
                ret |-> calculate_block_reward(block_height, is_pow_block, wide_shift)]

(***************************************************************************)
(* BlockHeader::serialize and BlockHeader::deserialize.  The uint32_t      *)
(* fields are pairs <<lo, hi>>, the hashes sequences of 32 bytes.          *)
(***************************************************************************)
SERIALIZED_SIZE == 80

\* write_uint32_le: the four bytes of value, least significant first
write_uint32_le(value) ==
    <<value[1] % 256, value[1] \div 256, value[2] % 256, value[2] \div 256>>

\* read_uint32_le at offset (counted from 0); the caller has checked the size
read_uint32_le(data, offset) ==
    <<data[offset + 1] + 256 * data[offset + 2],
      data[offset + 3] + 256 * data[offset + 4]>>

BlockHeader_serialize(header) ==
    write_uint32_le(header.version)
        \o header.prev_block_hash
        \o header.merkle_root
        \o write_uint32_le(header.timestamp)
        \o write_uint32_le(header.difficulty_target)
        \o write_uint32_le(header.nonce)

\* std::nullopt
Nullopt == [has_value |-> FALSE]

\* a std::optional that holds value
Some(value) == [has_value |-> TRUE, value |-> value]

\* BlockHeader::deserialize: the fields are read into a default-constructed
\* header, whose height is 0
BlockHeader_deserialize(data) ==
    IF Len(data) < SERIALIZED_SIZE THEN Nullopt
    ELSE Some([version |-> read_uint32_le(data, 0),
               prev_block_hash |-> SubSeq(data, 5, 36),
               merkle_root |-> SubSeq(data, 37, 68),
               timestamp |-> read_uint32_le(data, 68),
               difficulty_target |-> read_uint32_le(data, 72),
               nonce |-> read_uint32_le(data, 76),
               height |-> U32(0)])

\* a header is serialized and the bytes are parsed again
HeaderRoundTrip(header) ==
    fn_call' = [op |-> "BlockHeader::serialize", header |-> header,
                data |-> BlockHeader_serialize(header),
                ret |-> BlockHeader_deserialize(BlockHeader_serialize(header))]

\* bytes that are no whole header are parsed
HeaderParse(data) ==
    fn_call' = [op |-> "BlockHeader::deserialize", data |-> data,
                ret |-> BlockHeader_deserialize(data)]

(***************************************************************************)
(* IBlockchainStorage, called directly: every operation of the interface   *)
(* on a MemoryStorage and on an initialized LevelDBStorage whose database  *)
(* writes succeed.  An answer is [res, data, st]: the StorageResult, the    *)
(* value written to the output parameter (<<>> when nothing is written)    *)
(* and the storage afterwards.                                             *)
(***************************************************************************)
EmptyStorage ==
    [blocks_ |-> <<>>, height_to_hash_ |-> <<>>, block_metadata_ |-> <<>>,
     transactions_ |-> <<>>, tx_metadata_ |-> <<>>, utxos_ |-> <<>>,
     best_block_hash_ |-> NullHash256, io |-> 0]

Answer(res, data, st) == [res |-> res, data |-> data, st |-> st]

\* an operation without output parameter
NoData(r) == Answer(r.res, <<>>, r.st)

\* UTXOEntry::serialize: the hash, the index, the output, the height and
\* the coinbase flag as one byte
UTXOEntry_serialize(utxo) ==
    <<HashBytes(utxo.tx_hash), write_uint32_le(utxo.output_index),
      utxo.output.value, utxo.output.script_len,
      utxo.block_height, IF utxo.is_coinbase THEN 1 ELSE 0>>

\* UTXOEntry::deserialize
UTXOEntry_deserialize(data) ==
    [tx_hash |-> <<data[1][1], data[1][31] * 256 + data[1][32]>>,
     output_index |-> read_uint32_le(data[2], 0),
     output |-> [value |-> data[3], script_len |-> data[4]],
     block_height |-> data[5],
     is_coinbase |-> data[6] # 0]

\* Block::deserialize of Block::serialize: the header goes through
\* BlockHeader::serialize and BlockHeader::deserialize, which leave the
\* height out and give height 0; the transactions are written and read one
\* by one
Block_reread(block) ==
    [header |-> [block.header EXCEPT !.height = 0],
     transactions |-> [i \in 1..Len(block.transactions) |-> block.transactions[i]]]

\* MemoryStorage::get_block, LevelDBStorage::get_block
get_block(be, st, block_hash) ==
    IF block_hash \notin DOMAIN st.blocks_ THEN Answer("NOT_FOUND", <<>>, st)
    ELSE Answer("SUCCESS",
                <<IF be = "memory" THEN st.blocks_[block_hash]
                  ELSE Block_reread(st.blocks_[block_hash])>>,
                st)

\* MemoryStorage::get_block_by_height, LevelDBStorage::get_block_by_height
get_block_by_height(be, st, height) ==
    IF height \notin DOMAIN st.height_to_hash_ THEN Answer("NOT_FOUND", <<>>, st)
    ELSE get_block(be, st, st.height_to_hash_[height])

\* MemoryStorage::has_block, LevelDBStorage::has_block
has_block(be, st, block_hash) ==
    Answer(IF block_hash \in DOMAIN st.blocks_ THEN "SUCCESS" ELSE "NOT_FOUND", <<>>, st)

\* MemoryStorage::remove_block, LevelDBStorage::remove_block
remove_block(be, st, block_hash) ==
    IF be = "memory"
    THEN IF block_hash \notin DOMAIN st.blocks_ THEN Answer("NOT_FOUND", <<>>, st)
         ELSE Answer("SUCCESS", <<>>,
                     [st EXCEPT !.height_to_hash_ =
                                    MapErase(@, st.blocks_[block_hash].header.height),
                                !.blocks_ = MapErase(@, block_hash)])
    ELSE Answer("SUCCESS", <<>>, st)

\* MemoryStorage::store_block_metadata, LevelDBStorage::store_block_metadata
store_block_metadata(be, st, metadata) ==
    IF be = "memory"
    THEN Answer("SUCCESS", <<>>,
                [st EXCEPT !.block_metadata_ = MapPut(@, metadata.block_hash, metadata)])
    ELSE Answer("SUCCESS", <<>>, st)

\* MemoryStorage::get_block_metadata, LevelDBStorage::get_block_metadata
get_block_metadata(be, st, block_hash) ==
    IF be = "memory" /\ block_hash \in DOMAIN st.block_metadata_
    THEN Answer("SUCCESS", <<st.block_metadata_[block_hash]>>, st)
    ELSE Answer("NOT_FOUND", <<>>, st)

\* MemoryStorage::get_block_metadata_by_height,
\* LevelDBStorage::get_block_metadata_by_height
get_block_metadata_by_height(be, st, height) ==
    IF be = "memory" /\ height \in DOMAIN st.height_to_hash_
    THEN get_block_metadata(be, st, st.height_to_hash_[height])
    ELSE Answer("NOT_FOUND", <<>>, st)

\* MemoryStorage::get_transaction, LevelDBStorage::get_transaction
get_transaction(be, st, tx_hash) ==
    IF be = "memory" /\ tx_hash \in DOMAIN st.transactions_
    THEN Answer("SUCCESS", <<st.transactions_[tx_hash]>>, st)
    ELSE Answer("NOT_FOUND", <<>>, st)

\* MemoryStorage::has_transaction, LevelDBStorage::has_transaction
has_transaction(be, st, tx_hash) ==
    IF be = "memory" /\ tx_hash \in DOMAIN st.transactions_
    THEN Answer("SUCCESS", <<>>, st)
    ELSE Answer("NOT_FOUND", <<>>, st)

\* MemoryStorage::remove_transaction, LevelDBStorage::remove_transaction
remove_transaction(be, st, tx_hash) ==
    IF be = "memory"
    THEN IF tx_hash \notin DOMAIN st.transactions_ THEN Answer("NOT_FOUND", <<>>, st)
         ELSE Answer("SUCCESS", <<>>, [st EXCEPT !.transactions_ = MapErase(@, tx_hash)])
    ELSE Answer("SUCCESS", <<>>, st)

\* MemoryStorage::store_transaction_metadata,
\* LevelDBStorage::store_transaction_metadata
store_transaction_metadata(be, st, metadata) ==
    IF be = "memory"
    THEN Answer("SUCCESS", <<>>,
                [st EXCEPT !.tx_metadata_ = MapPut(@, metadata.tx_hash, metadata)])
    ELSE Answer("SUCCESS", <<>>, st)

\* MemoryStorage::get_transaction_metadata,
\* LevelDBStorage::get_transaction_metadata
get_transaction_metadata(be, st, tx_hash) ==
    IF be = "memory" /\ tx_hash \in DOMAIN st.tx_metadata_
    THEN Answer("SUCCESS", <<st.tx_metadata_[tx_hash]>>, st)
    ELSE Answer("NOT_FOUND", <<>>, st)

\* MemoryStorage::get_utxo, LevelDBStorage::get_utxo
get_utxo(be, st, tx_hash, output_index) ==
    LET key == make_utxo_key(be, tx_hash, output_index)
    IN  IF key \notin DOMAIN st.utxos_ THEN Answer("NOT_FOUND", <<>>, st)
        ELSE Answer("SUCCESS",
                    <<IF be = "memory" THEN st.utxos_[key]
                      ELSE UTXOEntry_deserialize(UTXOEntry_serialize(st.utxos_[key]))>>,
                    st)

\* MemoryStorage::has_utxo, LevelDBStorage::has_utxo
has_utxo(be, st, tx_hash, output_index) ==
    Answer(IF make_utxo_key(be, tx_hash, output_index) \in DOMAIN st.utxos_
           THEN "SUCCESS" ELSE "NOT_FOUND", <<>>, st)

\* std::max over the heights of height_to_hash_
MaxHeightOf(heights) == CHOOSE h \in heights : \A g \in heights : g <= h

\* MemoryStorage::get_blockchain_height, LevelDBStorage::get_blockchain_height
get_blockchain_height(be, st) ==
    IF be = "memory"
    THEN IF DOMAIN st.height_to_hash_ = {} THEN Answer("NOT_FOUND", <<0>>, st)
         ELSE Answer("SUCCESS", <<MaxHeightOf(DOMAIN st.height_to_hash_)>>, st)
    ELSE Answer("SUCCESS", <<0>>, st)

\* MemoryStorage::get_best_block_hash, LevelDBStorage::get_best_block_hash
get_best_block_hash(be, st) ==
    IF be = "memory" /\ st.best_block_hash_ # NullHash256
    THEN Answer("SUCCESS", <<st.best_block_hash_>>, st)
    ELSE Answer("NOT_FOUND", <<>>, st)

\* MemoryStorage::get_utxo_count, LevelDBStorage::get_utxo_count
get_utxo_count(be, st) ==
    Answer("SUCCESS", <<IF be = "memory" THEN Cardinality(DOMAIN st.utxos_) ELSE 0>>, st)

\* the call c = [op, arg] on the storage st of kind be
StorageCall(be, st, c) ==
    CASE c.op = "store_block" -> NoData(store_block(be, st, c.arg))
      [] c.op = "get_block" -> get_block(be, st, c.arg)
      [] c.op = "get_block_by_height" -> get_block_by_height(be, st, c.arg)
      [] c.op = "has_block" -> has_block(be, st, c.arg)
      [] c.op = "remove_block" -> remove_block(be, st, c.arg)
      [] c.op = "store_block_metadata" -> store_block_metadata(be, st, c.arg)
      [] c.op = "get_block_metadata" -> get_block_metadata(be, st, c.arg)
      [] c.op = "get_block_metadata_by_height" ->
            get_block_metadata_by_height(be, st, c.arg)
      [] c.op = "store_transaction" -> NoData(store_transaction(be, st, c.arg))
      [] c.op = "get_transaction" -> get_transaction(be, st, c.arg)
      [] c.op = "has_transaction" -> has_transaction(be, st, c.arg)
      [] c.op = "remove_transaction" -> remove_transaction(be, st, c.arg)
      [] c.op = "store_transaction_metadata" ->
            store_transaction_metadata(be, st, c.arg)
      [] c.op = "get_transaction_metadata" -> get_transaction_metadata(be, st, c.arg)
      [] c.op = "add_utxo" ->
            NoData(Storage_add_utxo(be, st, c.arg.tx_hash, c.arg.output_index, c.arg))
      [] c.op = "get_utxo" -> get_utxo(be, st, c.arg[1], c.arg[2])
      [] c.op = "has_utxo" -> has_utxo(be, st, c.arg[1], c.arg[2])
      [] c.op = "remove_utxo" -> NoData(Storage_remove_utxo(be, st, c.arg[1], c.arg[2]))
      [] c.op = "set_best_block_hash" -> NoData(set_best_block_hash(be, st, c.arg))
      [] c.op = "get_best_block_hash" -> get_best_block_hash(be, st)
      [] c.op = "get_blockchain_height" -> get_blockchain_height(be, st)
      [] c.op = "get_utxo_count" -> get_utxo_count(be, st)

IfaceInit ==
    /\ memory_storage = EmptyStorage
    /\ leveldb_storage = EmptyStorage
    /\ iface_call = [op |-> "none"]

\* the same call on both storages; mem and ldb are the answers
BothAnswer(c, mem, ldb) ==
    /\ memory_storage' = mem.st
    /\ leveldb_storage' = ldb.st
    /\ iface_call' = [op |-> c.op, arg |-> c.arg,
                      memory |-> [res |-> mem.res, data |-> mem.data],
                      leveldb |-> [res |-> ldb.res, data |-> ldb.data],
                      before |-> [memory |-> memory_storage,
                                  leveldb |-> leveldb_storage]]

IfaceCall(c) ==
    BothAnswer(c, StorageCall("memory", memory_storage, c),
                  StorageCall("leveldb", leveldb_storage, c))

(***************************************************************************)
(* crypto::MerkleTree.  A digest is kept as a term: <<"leaf", k>> for the  *)
(* k-th leaf value, <<"sha256", l, r>> for SHA256::hash of l followed by r. *)
(***************************************************************************)
\* SHA256::hash of the 64 bytes left ++ right
HashPair(left, right) == <<"sha256", left, right>>

\* Hash256{}
ZeroHash == <<"zero">>

\* MerkleTree::build_tree, the for loop: the level above current_level
RECURSIVE NextLevelFrom(_, _)
NextLevelFrom(current_level, i) ==
    IF i >= Len(current_level) THEN <<>>
    ELSE <<IF i + 1 < Len(current_level)
           THEN HashPair(current_level[i + 1], current_level[i + 2])
           ELSE HashPair(current_level[i + 1], current_level[i + 1])>>
         \o NextLevelFrom(current_level, i + 2)

\* MerkleTree::build_tree, the while loop
RECURSIVE MerkleTree_build_tree(_)
MerkleTree_build_tree(levels_) ==
    IF Len(levels_[Len(levels_)]) > 1
    THEN MerkleTree_build_tree(Append(levels_, NextLevelFrom(levels_[Len(levels_)], 0)))
    ELSE levels_

\* MerkleTree::MerkleTree: levels_
MerkleTree(leaf_hashes) ==
    IF leaf_hashes = <<>> THEN <<>> ELSE MerkleTree_build_tree(<<leaf_hashes>>)

\* MerkleTree::get_root
get_root(levels_) ==
    IF levels_ = <<>> \/ levels_[Len(levels_)] = <<>> THEN ZeroHash
    ELSE levels_[Len(levels_)][1]

\* MerkleTree::get_proof, the loop from level on (levels counted from 0)
RECURSIVE ProofFrom(_, _, _)
ProofFrom(levels_, level, current_index) ==
    IF level >= Len(levels_) - 1 THEN <<>>
    ELSE LET current_level == levels_[level + 1]
             sibling_index == IF current_index % 2 = 0 THEN current_index + 1
                              ELSE current_index - 1
         IN  <<IF sibling_index < Len(current_level)
               THEN current_level[sibling_index + 1]
               ELSE current_level[current_index + 1]>>
             \o ProofFrom(levels_, level + 1, current_index \div 2)

\* MerkleTree::get_proof
get_proof(levels_, leaf_index) ==
    IF levels_ = <<>> \/ leaf_index >= Len(levels_[1]) THEN <<>>
    ELSE ProofFrom(levels_, 0, leaf_index)

\* the same step with the node always taken for a left child
CombineStep_LeftOnly(current_hash, proof_hash, current_index) ==
    HashPair(current_hash, proof_hash)

\* MerkleTree::verify_proof, one step of the loop
CombineStep(current_hash, proof_hash, current_index) ==
    IF current_index % 2 = 0 THEN HashPair(current_hash, proof_hash)
    ELSE HashPair(proof_hash, current_hash)

\* MerkleTree::verify_proof, the loop from the k-th proof hash on
RECURSIVE VerifyFrom(_, _, _, _)
VerifyFrom(current_hash, proof, k, current_index) ==
    IF k > Len(proof) THEN current_hash
    ELSE VerifyFrom(CombineStep(current_hash, proof[k], current_index),
                    proof, k + 1, current_index \div 2)

\* MerkleTree::verify_proof (tree_size is not used)
verify_proof(leaf_hash, proof, root, leaf_index, tree_size) ==
    VerifyFrom(leaf_hash, proof, 1, leaf_index) = root

\* a tree is built over leaf_hashes, the proof of leaf_index is taken from
\* it and leaf_hash is verified with it
VerifyProof(leaf_hashes, leaf_index, leaf_hash) ==
    fn_call' = [op |-> "verify_proof", leaf_hashes |-> leaf_hashes,
                leaf_index |-> leaf_index, leaf_hash |-> leaf_hash,
                proof |-> get_proof(MerkleTree(leaf_hashes), leaf_index),
                root |-> get_root(MerkleTree(leaf_hashes)),
                ret |-> verify_proof(leaf_hash,
                                     get_proof(MerkleTree(leaf_hashes), leaf_index),
                                     get_root(MerkleTree(leaf_hashes)),
                                     leaf_index, Len(leaf_hashes))]

\* Block::calculate_merkle_root of a block whose cache is empty, over the
\* transaction hashes of its list
merkle_root_of(tx_hashes) ==
    IF tx_hashes = <<>> THEN ZeroHash ELSE get_root(MerkleTree(tx_hashes))

\* Block::validate_merkle_root of a block that holds the transactions with
\* the hashes tx_hashes under a header whose merkle_root was computed by
\* update_merkle_root from the list built_from
ValidateMerkleRootOf(built_from, tx_hashes) ==
    fn_call' = [op |-> "validate_merkle_root", built_from |-> built_from,
                tx_hashes |-> tx_hashes,
                ret |-> merkle_root_of(built_from) = merkle_root_of(tx_hashes)]

(***************************************************************************)
(* Memoized hashes of Transaction and Block                                *)
(***************************************************************************)
RECURSIVE Flatten(_)
Flatten(seqs) ==
    IF seqs = <<>> THEN <<>> ELSE Head(seqs) \o Flatten(Tail(seqs))

\* TxInput::serialize: previous transaction hash and output index
TxInput_serialize(input) == input.prev_tx_hash \o input.prev_output_index

\* TxOutput::serialize: value and script
TxOutput_serialize(output) == <<output.value, output.script_len>>

\* TxWitness::is_empty; a witness is the sequence of its items, and the
\* items of the model are not empty
TxWitness_is_empty(witness) == witness = <<>>

\* TxWitness::serialize: item count and items
TxWitness_serialize(witness) == <<Len(witness)>> \o witness

\* Transaction::is_segwit
is_segwit(tx) ==
    /\ tx.witnesses # <<>>
    /\ \E i \in 1..Len(tx.witnesses) : ~TxWitness_is_empty(tx.witnesses[i])

\* Transaction::serialize_legacy; the data is kept as the sequence of the
\* values written, not of their bytes
Transaction_serialize_legacy(tx) ==
    <<tx.version, Len(tx.inputs)>>
    \o Flatten([i \in 1..Len(tx.inputs) |-> TxInput_serialize(tx.inputs[i])])
    \o <<Len(tx.outputs)>>
    \o Flatten([i \in 1..Len(tx.outputs) |-> TxOutput_serialize(tx.outputs[i])])
    \o <<tx.locktime>>

\* Transaction::serialize: marker, flag and witness data when is_segwit
Transaction_serialize(tx) ==
    <<tx.version>>
    \o (IF is_segwit(tx) THEN <<0, 1>> ELSE <<>>)
    \o <<Len(tx.inputs)>>
    \o Flatten([i \in 1..Len(tx.inputs) |-> TxInput_serialize(tx.inputs[i])])
    \o <<Len(tx.outputs)>>
    \o Flatten([i \in 1..Len(tx.outputs) |-> TxOutput_serialize(tx.outputs[i])])
    \o (IF is_segwit(tx)
        THEN Flatten([i \in 1..Len(tx.witnesses) |-> TxWitness_serialize(tx.witnesses[i])])
        ELSE <<>>)
    \o <<tx.locktime>>

RECURSIVE MixFrom(_, _, _)
MixFrom(data, i, acc) ==
    IF i > Len(data) THEN acc
    ELSE MixFrom(data, i + 1, (acc * 31 + data[i]) % LimbBase)

\* SHA256::double_hash: a digest fixed by the data, of which two limbs are kept
double_hash(data) == <<0, MixFrom(data, 1, 7)>>

\* Transaction(): the default member initializers, both caches empty
Transaction_default ==
    [version |-> 2, inputs |-> <<>>, outputs |-> <<>>, witnesses |-> <<>>,
     locktime |-> 0, cached_hash |-> Nullopt, cached_wtxid |-> Nullopt]

\* Transaction(version, inputs, outputs, locktime): one empty witness per input
Transaction(version, inputs, outputs, locktime) ==
    [version |-> version, inputs |-> inputs, outputs |-> outputs,
     witnesses |-> [i \in 1..Len(inputs) |-> <<>>],
     locktime |-> locktime, cached_hash |-> Nullopt, cached_wtxid |-> Nullopt]

\* Transaction::get_hash on an object: the value returned and the object after
Tx_get_hash(tx) ==
    LET hash == IF tx.cached_hash.has_value THEN tx.cached_hash.value
                ELSE double_hash(Transaction_serialize_legacy(tx))
    IN  [ret |-> hash, self |-> [tx EXCEPT !.cached_hash = Some(hash)]]

\* Transaction::get_wtxid on an object
Tx_get_wtxid(tx) ==
    LET hash == IF tx.cached_wtxid.has_value THEN tx.cached_wtxid.value
                ELSE double_hash(Transaction_serialize(tx))
    IN  [ret |-> hash, self |-> [tx EXCEPT !.cached_wtxid = Some(hash)]]

\* Transaction::clear_cache
Tx_clear_cache(tx) ==
    [tx EXCEPT !.cached_hash = Nullopt, !.cached_wtxid = Nullopt]

\* Block(header, transactions): both caches empty
Block(header, transactions) ==
    [header |-> header, transactions |-> transactions,
     cached_hash |-> Nullopt, cached_merkle |-> Nullopt]

\* Block::get_hash on an object
Blk_get_hash(block) ==
    LET hash == IF block.cached_hash.has_value THEN block.cached_hash.value
                ELSE calculate_hash(block.header)
    IN  [ret |-> hash, self |-> [block EXCEPT !.cached_hash = Some(hash)]]

\* Block::calculate_merkle_root on an object: every transaction is asked
\* for its hash, which fills its cache
Blk_calculate_merkle_root(block) ==
    IF block.cached_merkle.has_value
    THEN [ret |-> block.cached_merkle.value, self |-> block]
    ELSE LET asked == [i \in 1..Len(block.transactions) |->
                          Tx_get_hash(block.transactions[i])]
             root == IF block.transactions = <<>> THEN <<>>
                     ELSE build_tree([i \in 1..Len(asked) |->
                                         <<"leaf", asked[i].ret>>])[1]
         IN  [ret |-> root,
              self |-> [block EXCEPT
                          !.transactions = [i \in 1..Len(asked) |-> asked[i].self],
                          !.cached_merkle = Some(root)]]

\* Block::update_merkle_root
Blk_update_merkle_root(block) ==
    LET calc == Blk_calculate_merkle_root([block EXCEPT !.cached_merkle = Nullopt])
    IN  [calc.self EXCEPT !.header.merkle_root = calc.ret]

\* Block::validate_merkle_root on an object
Blk_validate_merkle_root(block) ==
    LET calc == Blk_calculate_merkle_root(block)
    IN  [ret |-> block.header.merkle_root = calc.ret, self |-> calc.self]

\* Block::clear_cache
Blk_clear_cache(block) ==
    [block EXCEPT !.cached_hash = Nullopt, !.cached_merkle = Nullopt]

\* Block::mine, from the given iteration on
RECURSIVE Blk_mine_from(_, _, _)
Blk_mine_from(block, iterations, max_iterations) ==
    IF iterations < max_iterations
    THEN LET tried == [block EXCEPT !.header.nonce = iterations]
         IN  IF meets_difficulty_target(tried.header)
             THEN [ret |-> TRUE, self |-> Blk_clear_cache(tried)]
             ELSE Blk_mine_from(tried, iterations + 1, max_iterations)
    ELSE [ret |-> FALSE, self |-> block]

\* Block::mine
Blk_mine(block, max_iterations) == Blk_mine_from(block, 0, max_iterations)

\* mining::mine_block, from the given nonce on
RECURSIVE mining_mine_block_from(_, _, _, _)
mining_mine_block_from(block, nonce, max_iterations, result) ==
    IF nonce < max_iterations
    THEN LET tried == [block EXCEPT !.header.nonce = nonce]
             counted == [result EXCEPT !.iterations = @ + 1]
         IN  IF meets_difficulty_target(tried.header)
             THEN [ret |-> [counted EXCEPT !.success = TRUE, !.nonce = nonce,
                                           !.hash = Blk_get_hash(tried).ret],
                   self |-> Blk_get_hash(tried).self]
             ELSE mining_mine_block_from(tried, nonce + 1, max_iterations, counted)
    ELSE [ret |-> result, self |-> block]

\* mining::mine_block; MiningResult result = {} is all zero
mining_mine_block(block, max_iterations) ==
    mining_mine_block_from(block, 0, max_iterations,
        [success |-> FALSE, nonce |-> 0, hash |-> NullHash256, iterations |-> 0])

\* the transactions a Block of the model holds at most
MaxTransactions == 2

\* whether the object in hand is a Block (else it is a Transaction)
IsBlock(o) == "header" \in DOMAIN o

CacheInit(o) ==
    /\ obj = o
    /\ cache_call = [op |-> "none", ret |-> FALSE]

\* a caller assigns a public field of the Transaction
AssignField(field, value) ==
    /\ ~IsBlock(obj)
    /\ obj' = [obj EXCEPT ![field] = value]
    /\ cache_call' = [op |-> "assign", ret |-> FALSE]

GetHash ==
    /\ ~IsBlock(obj)
    /\ obj' = Tx_get_hash(obj).self
    /\ cache_call' = [op |-> "Transaction::get_hash", ret |-> Tx_get_hash(obj).ret]

GetWtxid ==
    /\ ~IsBlock(obj)
    /\ obj' = Tx_get_wtxid(obj).self
    /\ cache_call' = [op |-> "Transaction::get_wtxid", ret |-> Tx_get_wtxid(obj).ret]

TxClearCache ==
    /\ ~IsBlock(obj)
    /\ obj' = Tx_clear_cache(obj)
    /\ cache_call' = [op |-> "Transaction::clear_cache", ret |-> FALSE]

\* a caller assigns header.nonce of the Block
AssignNonce(nonce) ==
    /\ IsBlock(obj)
    /\ obj' = [obj EXCEPT !.header.nonce = nonce]
    /\ cache_call' = [op |-> "assign", ret |-> FALSE]

\* a caller assigns the version of a transaction of the Block
AssignTxVersion(i, version) ==
    /\ IsBlock(obj)
    /\ i \in 1..Len(obj.transactions)
    /\ obj' = [obj EXCEPT !.transactions[i].version = version]
    /\ cache_call' = [op |-> "assign", ret |-> FALSE]

\* a caller appends to the public transactions vector of the Block
PushTransaction(tx) ==
    /\ IsBlock(obj)
    /\ Len(obj.transactions) < MaxTransactions
    /\ obj' = [obj EXCEPT !.transactions = Append(@, tx)]
    /\ cache_call' = [op |-> "push_back", ret |-> FALSE]

BlockGetHash ==
    /\ IsBlock(obj)
    /\ obj' = Blk_get_hash(obj).self
    /\ cache_call' = [op |-> "Block::get_hash", ret |-> Blk_get_hash(obj).ret]

CalculateMerkleRoot ==
    /\ IsBlock(obj)
    /\ obj' = Blk_calculate_merkle_root(obj).self
    /\ cache_call' = [op |-> "Block::calculate_merkle_root",
                      ret |-> Blk_calculate_merkle_root(obj).ret]

UpdateMerkleRoot ==
    /\ IsBlock(obj)
    /\ obj' = Blk_update_merkle_root(obj)
    /\ cache_call' = [op |-> "Block::update_merkle_root", ret |-> FALSE]

ValidateMerkleRoot ==
    /\ IsBlock(obj)
    /\ obj' = Blk_validate_merkle_root(obj).self
    /\ cache_call' = [op |-> "Block::validate_merkle_root",
                      ret |-> Blk_validate_merkle_root(obj).ret]

BlockMine(max_iterations) ==
    /\ IsBlock(obj)
    /\ obj' = Blk_mine(obj, max_iterations).self
    /\ cache_call' = [op |-> "Block::mine", ret |-> Blk_mine(obj, max_iterations).ret]

MiningMineBlock(max_iterations) ==
    /\ IsBlock(obj)
    /\ obj' = mining_mine_block(obj, max_iterations).self
    /\ cache_call' = [op |-> "mining::mine_block",
                      ret |-> mining_mine_block(obj, max_iterations).ret]

BlockClearCache ==
    /\ IsBlock(obj)
    /\ obj' = Blk_clear_cache(obj)
    /\ cache_call' = [op |-> "Block::clear_cache", ret |-> FALSE]

(***************************************************************************)
(* HybridConsensusEngine: slots, block validation, read operations         *)
(***************************************************************************)
\* the constructor seeds rng_; initialize_genesis copies
\* pos_activation_height from the genesis state
SlotInit(seed, activation) ==
    /\ rng_ = seed
    /\ pos_activation_height = activation
    /\ slot_call = [op |-> "none"]

\* static_cast<uint64_t>(600 * std::max(0.5, 1.0 - active_validators * 0.02))
\* in double arithmetic, for 0 .. 25 active validators (300 from there on)
AdjustedIntervals ==
    <<600, 588, 576, 564, 552, 540, 528, 516, 504, 492, 480, 468, 456,
      444, 432, 420, 407, 395, 384, 372, 360, 348, 336, 324, 312, 300>>

\* HybridConsensusEngine::calculate_next_slot_time; the times of the model
\* are far below 2^64
calculate_next_slot_time(current_time, block_height) ==
    IF block_height < pos_activation_height THEN current_time + 600
    ELSE LET active_validators ==
                 Cardinality({id \in DOMAIN validators : validators[id].is_active})
             adjusted_interval ==
                 IF active_validators + 1 > Len(AdjustedIntervals) THEN 300
                 ELSE AdjustedIntervals[active_validators + 1]
         IN  current_time + (IF adjusted_interval < 60 THEN 60 ELSE adjusted_interval)

\* HybridConsensusEngine::get_validator
get_validator(validator_id) ==
    IF validator_id \in DOMAIN validators
    THEN Some(validators[validator_id]) ELSE Nullopt

\* HybridConsensusEngine::get_active_validators, in the order of the map
get_active_validators ==
    LET ids == SortedSeq({id \in DOMAIN validators : validators[id].is_active})
    IN  [i \in 1..Len(ids) |-> validators[ids[i]]]

\* HybridConsensusEngine::calculate_network_stats
calculate_network_stats ==
    [total_validators |-> Cardinality(DOMAIN validators),
     total_network_stake |-> total_stake,
     current_difficulty |-> current_difficulty,
     active_validators |->
         Cardinality({id \in DOMAIN validators : validators[id].is_active}),
     pow_blocks_last_100 |-> 60,
     pos_blocks_last_100 |-> 40]

\* generate_upcoming_slots: whether slot i of the call is a PoS slot
slot_is_pos_EveryHeight(i, block_height) == i % 2 = 0

slot_is_pos(i, block_height) ==
    block_height >= pos_activation_height /\ i % 2 = 0

\* generate_upcoming_slots: the slot built in pass i of the loop;
\* stake_weight is <<>> where the code leaves it unassigned
upcoming_slot(i, slot_time) ==
    LET block_height == current_height + i + 1
        validator_id == IF slot_is_pos(i, block_height)
                        THEN select_validator_by_stake(slot_time, best_block_hash)
                        ELSE NullHash
    IN  [validator_id |-> validator_id,
         slot_time |-> slot_time,
         block_height |-> block_height,
         stake_weight |->
             IF slot_is_pos(i, block_height)
             THEN (IF get_validator(validator_id).has_value
                   THEN <<get_validator(validator_id).value.stake_amount>>
                   ELSE <<>>)
             ELSE <<0>>]

RECURSIVE SlotsFrom(_, _, _, _)
SlotsFrom(i, slot_count, current_time, slots) ==
    IF i >= slot_count THEN slots
    ELSE SlotsFrom(i + 1, slot_count,
                   calculate_next_slot_time(current_time, current_height + i),
                   Append(slots,
                          upcoming_slot(i, calculate_next_slot_time(current_time,
                                                                    current_height + i))))

\* HybridConsensusEngine::generate_upcoming_slots
generate_upcoming_slots(from_time, slot_count) ==
    SlotsFrom(0, slot_count, from_time, <<>>)

\* HybridConsensusEngine::validate_block
validate_block(block_data, nonce, validator_id, wide_shift) ==
    IF validator_id = NullHash
    THEN verify_proof_of_work(block_data, nonce, current_difficulty, wide_shift)
    ELSE IF ~get_validator(validator_id).has_value THEN FALSE
    ELSE IF ~get_validator(validator_id).value.is_active THEN FALSE
    ELSE is_validator_eligible(validator_id, now)

GenerateUpcomingSlots(from_time, slot_count) ==
    /\ last_call' = [op |-> "generate_upcoming_slots", from_time |-> from_time,
                     slot_count |-> slot_count,
                     ret |-> generate_upcoming_slots(from_time, slot_count)]
    /\ UNCHANGED <<consensus_state, now, stake_hist>>

ValidateBlock(block_data, nonce, validator_id) ==
    /\ \E wide_shift \in ShiftOutcomes :
          last_call' = [op |-> "validate_block", id |-> validator_id,
                        ret |-> validate_block(block_data, nonce, validator_id,
                                               wide_shift)]
    /\ UNCHANGED <<consensus_state, now, stake_hist>>

GetValidator(validator_id) ==
    /\ last_call' = [op |-> "get_validator", id |-> validator_id,
                     ret |-> get_validator(validator_id)]
    /\ UNCHANGED <<consensus_state, now, stake_hist>>

GetActiveValidators ==
    /\ last_call' = [op |-> "get_active_validators", ret |-> get_active_validators]
    /\ UNCHANGED <<consensus_state, now, stake_hist>>

CalculateNetworkStats ==
    /\ last_call' = [op |-> "calculate_network_stats", ret |-> calculate_network_stats]
    /\ UNCHANGED <<consensus_state, now, stake_hist>>

\* HybridConsensusEngine::calculate_block_reward, called on the engine
EngineBlockReward(block_height, is_pow_block) ==
    /\ \E wide_shift \in ShiftOutcomes :
          last_call' = [op |-> "calculate_block_reward",
                        ret |-> calculate_block_reward(block_height, is_pow_block,
                                                       wide_shift)]
    /\ UNCHANGED <<consensus_state, now, stake_hist>>

\* the calls that follow are made on another engine, constructed at another
\* time, whose ConsensusState is equal
OtherEngine(seed) ==
    /\ rng_' = seed
    /\ UNCHANGED <<engine_vars, pos_activation_height, slot_call>>

(***************************************************************************)
(* Threads inside UTXOManager.  A step is what a call does while it holds  *)
(* one lock: MemoryStorage::mutex_ inside a storage call, cache_mutex_     *)
(* around an access to utxo_cache_.                                        *)
(***************************************************************************)
CallThreads == {1, 2}

UtxoReturned(op, ret) ==
    [op |-> op, pc |-> "returned", tx_hash |-> NullHash256,
     output_index |-> U32(0), entry |-> <<>>, ret |-> ret]

UtxoInside(op, pc, tx_hash, output_index, entry) ==
    [op |-> op, pc |-> pc, tx_hash |-> tx_hash,
     output_index |-> output_index, entry |-> entry, ret |-> FALSE]

\* the storage behind the manager stays as it is
StorageUntouched ==
    UNCHANGED <<blocks_, height_to_hash_, transactions_, utxos_, best_block_hash_>>

\* UTXOManager::get_utxo (has_utxo calls it), the block under the shared
\* lock: the cache is looked up
GetUtxoLookup(t, op, tx_hash, output_index) ==
    /\ utxo_calls[t].pc = "returned"
    /\ LET cache_key == make_cache_key(tx_hash, output_index)
       IN  utxo_calls' = [utxo_calls EXCEPT ![t] =
              IF cache_key \in DOMAIN utxo_cache_
              THEN UtxoReturned(op, TRUE)
              ELSE UtxoInside(op, "storage", tx_hash, output_index, <<>>)]
    /\ UNCHANGED <<storage_state, engine_calls>>

\* UTXOManager::get_utxo, storage_->get_utxo
GetUtxoStorage(t) ==
    /\ utxo_calls[t].pc = "storage"
    /\ utxo_calls[t].op \in {"get_utxo", "has_utxo"}
    /\ LET c == utxo_calls[t]
           r == get_utxo(backend, Storage(0), c.tx_hash, c.output_index)
       IN  utxo_calls' = [utxo_calls EXCEPT ![t] =
              IF r.res # "SUCCESS" THEN UtxoReturned(c.op, FALSE)
              ELSE UtxoInside(c.op, "cache", c.tx_hash, c.output_index, r.data)]
    /\ UNCHANGED <<storage_state, engine_calls>>

\* UTXOManager::get_utxo, the block under the exclusive lock: the entry
\* read from the storage is put into the cache
GetUtxoFill(t) ==
    /\ utxo_calls[t].pc = "cache"
    /\ utxo_calls[t].op \in {"get_utxo", "has_utxo"}
    /\ LET c == utxo_calls[t]
       IN  /\ utxo_cache_' = MapPut(utxo_cache_,
                                    make_cache_key(c.tx_hash, c.output_index),
                                    c.entry[1])
           /\ utxo_calls' = [utxo_calls EXCEPT ![t] = UtxoReturned(c.op, TRUE)]
    /\ StorageUntouched
    /\ UNCHANGED engine_calls

\* UTXOManager::add_utxo up to the answer of storage_->add_utxo
AddUtxoStorage(t, tx, output_index, block_height) ==
    /\ utxo_calls[t].pc = "returned"
    /\ IF output_index >= Len(tx.outputs)
       THEN /\ utxo_calls' = [utxo_calls EXCEPT ![t] = UtxoReturned("add_utxo", FALSE)]
            /\ UNCHANGED storage_state
       ELSE LET utxo == UTXOEntryOf(tx, output_index, block_height)
                r == Storage_add_utxo(backend, Storage(0), utxo.tx_hash,
                                      utxo.output_index, utxo)
            IN  /\ StorageBecomes(r)
                /\ utxo_calls' = [utxo_calls EXCEPT ![t] =
                      IF r.res # "SUCCESS" THEN UtxoReturned("add_utxo", FALSE)
                      ELSE UtxoInside("add_utxo", "cache", utxo.tx_hash,
                                      utxo.output_index, <<utxo>>)]
    /\ UNCHANGED engine_calls

\* UTXOManager::add_utxo, the rest under the exclusive lock
AddUtxoFill(t) ==
    /\ utxo_calls[t].pc = "cache"
    /\ utxo_calls[t].op = "add_utxo"
    /\ LET c == utxo_calls[t]
       IN  /\ utxo_cache_' = MapPut(utxo_cache_,
                                    make_cache_key(c.tx_hash, c.output_index),
                                    c.entry[1])
           /\ utxo_calls' = [utxo_calls EXCEPT ![t] = UtxoReturned("add_utxo", TRUE)]
    /\ StorageUntouched
    /\ UNCHANGED engine_calls

\* UTXOManager::remove_utxo up to the answer of storage_->remove_utxo
RemoveUtxoStorage(t, tx_hash, output_index) ==
    /\ utxo_calls[t].pc = "returned"
    /\ LET r == Storage_remove_utxo(backend, Storage(0), tx_hash, output_index)
       IN  /\ StorageBecomes(r)
           /\ utxo_calls' = [utxo_calls EXCEPT ![t] =
                 IF r.res # "SUCCESS" /\ r.res # "NOT_FOUND"
                 THEN UtxoReturned("remove_utxo", FALSE)
                 ELSE UtxoInside("remove_utxo", "cache", tx_hash, output_index, <<>>)]
    /\ UNCHANGED engine_calls

\* UTXOManager::remove_utxo, the rest under the exclusive lock
RemoveUtxoErase(t) ==
    /\ utxo_calls[t].pc = "cache"
    /\ utxo_calls[t].op = "remove_utxo"
    /\ LET c == utxo_calls[t]
       IN  /\ utxo_cache_' = MapErase(utxo_cache_,
                                      make_cache_key(c.tx_hash, c.output_index))
           /\ utxo_calls' = [utxo_calls EXCEPT ![t] = UtxoReturned("remove_utxo", TRUE)]
    /\ StorageUntouched
    /\ UNCHANGED engine_calls

(***************************************************************************)
(* Threads inside HybridConsensusEngine.  The engine has no lock, so the   *)
(* calls of two threads interleave at the loads and stores of state_.      *)
(***************************************************************************)
\* the part of state_ the calls below read and write
EngineState ==
    [validators |-> validators, stakes |-> stakes, total_stake |-> total_stake]

EngineCall(op, pc, id, arg, tmp) ==
    [op |-> op, pc |-> pc, id |-> id, arg |-> arg, tmp |-> tmp]

EngineReturned(c) == [c EXCEPT !.pc = "returned", !.tmp = <<>>]

EngineAt(c, pc, tmp) == [c EXCEPT !.pc = pc, !.tmp = tmp]

Stepped(st, c) == [st |-> st, c |-> c]

\* HybridConsensusEngine::add_validator, from the position c.pc to the next
\* access of state_.total_stake
add_validator_step(st, c) ==
    IF c.pc = "start"
    THEN IF c.arg < MinStakeAmount THEN Stepped(st, EngineReturned(c))
         ELSE Stepped([st EXCEPT
                  !.validators = MapPut(@, c.id,
                      [stake_amount |-> c.arg,
                       last_block_time |-> 0,
                       reputation_score |-> U32(100),
                       is_active |-> TRUE,
                       total_blocks_created |-> 0,
                       missed_slots |-> 0]),
                  !.stakes = MapPut(@, c.id,
                      [amount |-> c.arg,
                       lock_height |-> current_height + StakeMaturityBlocks,
                       is_locked |-> TRUE])],
                  EngineAt(c, "load", <<>>))
    ELSE IF c.pc = "load"
    THEN Stepped(st, EngineAt(c, "store", <<st.total_stake + c.arg>>))
    ELSE Stepped([st EXCEPT !.total_stake = c.tmp[1]], EngineReturned(c))

\* HybridConsensusEngine::update_stake
update_stake_step(st, c) ==
    IF c.pc = "start"
    THEN IF c.id \in DOMAIN st.validators /\ c.id \in DOMAIN st.stakes
         THEN Stepped(st, EngineAt(c, "store",
                 <<st.total_stake - st.stakes[c.id].amount + c.arg>>))
         ELSE Stepped(st, EngineReturned(c))
    ELSE IF c.pc = "store"
    THEN Stepped([st EXCEPT !.total_stake = c.tmp[1]], EngineAt(c, "fields", <<>>))
    ELSE Stepped([st EXCEPT !.stakes[c.id].amount = c.arg,
                            !.validators[c.id].stake_amount = c.arg],
                 EngineReturned(c))

\* HybridConsensusEngine::penalize_validator
penalize_validator_step(st, c) ==
    IF c.pc = "start"
    THEN IF c.id \in DOMAIN st.validators
         THEN Stepped(st, EngineAt(c, "store",
                 <<U32Max(U32(0), U32Sub(st.validators[c.id].reputation_score,
                                         U32(c.arg)))>>))
         ELSE Stepped(st, EngineReturned(c))
    ELSE IF c.pc = "store"
    THEN Stepped([st EXCEPT !.validators[c.id].reputation_score = c.tmp[1]],
                 EngineAt(c, "load_missed", <<>>))
    ELSE IF c.pc = "load_missed"
    THEN Stepped(st, EngineAt(c, "store_missed",
                                 <<st.validators[c.id].missed_slots + 1>>))
    ELSE IF c.pc = "store_missed"
    THEN Stepped([st EXCEPT !.validators[c.id].missed_slots = c.tmp[1]],
                 EngineAt(c, "deactivate", <<>>))
    ELSE Stepped([st EXCEPT !.validators[c.id].is_active =
                     IF U32Lt(st.validators[c.id].reputation_score, U32(10))
                     THEN FALSE ELSE @],
                 EngineReturned(c))

\* the next step of the call c on the state st
EngineStep(st, c) ==
    IF c.op = "add_validator" THEN add_validator_step(st, c)
    ELSE IF c.op = "update_stake" THEN update_stake_step(st, c)
    ELSE penalize_validator_step(st, c)

\* the call c run from its position to its return with no other thread
\* in the engine
RECURSIVE RunCall(_, _)
RunCall(st, c) ==
    IF c.pc = "returned" THEN st
    ELSE RunCall(EngineStep(st, c).st, EngineStep(st, c).c)

\* two threads enter the engine with the calls c1 and c2
StartCalls(c1, c2) ==
    /\ \A t \in CallThreads : engine_calls.threads[t].pc = "returned"
    /\ engine_calls' = [threads |-> <<c1, c2>>, before |-> <<EngineState>>,
                        rounds |-> engine_calls.rounds + 1]
    /\ UNCHANGED <<engine_vars, utxo_calls>>

\* the thread t takes its next step
ThreadStep(t) ==
    /\ engine_calls.threads[t].pc # "returned"
    /\ LET r == EngineStep(EngineState, engine_calls.threads[t])
       IN  /\ validators' = r.st.validators
           /\ stakes' = r.st.stakes
           /\ total_stake' = r.st.total_stake
           /\ engine_calls' = [engine_calls EXCEPT !.threads[t] = r.c]
    /\ UNCHANGED <<current_height, best_block_hash, total_chain_work,
                   current_difficulty, now, last_call, stake_hist,
                   delivered, pen_hist, utxo_calls>>

\* no thread is inside a call
EngineIdle == [op |-> "none", pc |-> "returned", id |-> NullHash, arg |-> 0, tmp |-> <<>>]

ThreadInit ==
    /\ engine_calls = [threads |-> [t \in CallThreads |-> EngineIdle],
                       before |-> <<>>, rounds |-> 0]
    /\ utxo_calls = [t \in CallThreads |-> UtxoReturned("none", FALSE)]

(***************************************************************************)
(* Specifications                                                          *)
(***************************************************************************)
Init ==
    /\ EngineInit /\ ChainInit /\ StoreInit("leveldb") /\ FnInit /\ MinerInit
    /\ IfaceInit /\ CacheInit(Transaction_default) /\ SlotInit(0, 1000) /\ ThreadInit

\* the counters stay within the caps of the model
MissedBelowCap(id) ==
    id \in DOMAIN validators => validators[id].missed_slots < MaxMissed

BlocksCreatedBelowCap(id) ==
    id \in DOMAIN validators => validators[id].total_blocks_created < MaxBlocksCreated

\* validator and stake management while blocks are committed; every step
\* is one call of the engine
NextStake ==
    /\ \/ \E id \in ValidatorIds, s \in StakeAmounts :
             total_stake + s <= MaxTotalStake /\ AddValidator(id, s)
       \/ \E id \in ValidatorIds : RemoveValidator(id)
       \/ \E id \in ValidatorIds, s \in NewStakeAmounts :
             total_stake + s <= MaxTotalStake /\ UpdateStake(id, s)
       \/ \E h \in Heights : UpdateConsensusState(HashAtHeight(h), h)
    /\ UNCHANGED <<delivered, pen_hist, chain_vars, store_vars, fn_vars, miner_vars, iface_vars, cache_vars, slot_vars, thread_vars>>

SpecStake == Init /\ [][NextStake]_vars

\* stake amounts and heights used when block production is explored
PosStakes == {2}

PosNewStakes == {0}

PosHeights == {StakeMaturityBlocks}

\* block production and validator selection
NextPos ==
    /\ \/ \E id \in ValidatorIds, s \in PosStakes :
             total_stake + s <= MaxTotalStake /\ AddValidator(id, s)
       \/ \E id \in ValidatorIds, s \in PosNewStakes : UpdateStake(id, s)
       \/ \E h \in PosHeights : UpdateConsensusState(HashAtHeight(h), h)
       \/ \E id \in ValidatorIds, p \in PenaltyPoints :
             MissedBelowCap(id) /\ PenalizeValidator(id, p)
       \/ \E id \in ValidatorIds, r \in RewardPoints : RewardValidator(id, r)
       \/ \E id \in ValidatorIds : BlocksCreatedBelowCap(id) /\ CreatePosBlock(id)
       \/ \E t \in SlotTimes, h \in PosHeights : SelectValidator(t, HashAtHeight(h))
       \/ Tick
    /\ UNCHANGED <<delivered, pen_hist, chain_vars, store_vars, fn_vars, miner_vars, iface_vars, cache_vars, slot_vars, thread_vars>>

SpecPos == Init /\ [][NextPos]_vars

(***************************************************************************)
(* Reputation: validators are added, penalized and rewarded                *)
(***************************************************************************)
\* penalty and reward points (uint32_t) offered, and the cap on missed_slots
RepPenalties == {40, 51, 91}

RepRewards == {50, 60}

MaxRepMissed == 2

NextRep ==
    /\ \/ \E id \in ValidatorIds :
             /\ total_stake + MinStakeAmount <= MaxTotalStake
             /\ AddValidator(id, MinStakeAmount)
             /\ pen_hist' = MapPut(pen_hist, id, [total |-> 0, pure |-> TRUE])
       \/ \E id \in ValidatorIds, p \in RepPenalties :
             /\ id \in DOMAIN validators => validators[id].missed_slots < MaxRepMissed
             /\ PenalizeValidator(id, p)
             /\ pen_hist' = IF id \in DOMAIN pen_hist
                            THEN [pen_hist EXCEPT ![id].total = @ + p]
                            ELSE pen_hist
       \/ \E id \in ValidatorIds, r \in RepRewards :
             /\ RewardValidator(id, r)
             /\ pen_hist' = IF id \in DOMAIN pen_hist
                            THEN [pen_hist EXCEPT ![id].pure = FALSE]
                            ELSE pen_hist
    /\ UNCHANGED <<delivered, chain_vars, store_vars, fn_vars, miner_vars, iface_vars, cache_vars, slot_vars, thread_vars>>

SpecRep == Init /\ [][NextRep]_vars

(***************************************************************************)
(* Retargets and target checks on their own                                *)
(***************************************************************************)
\* compact targets handed over as the current difficulty or as the target
\* of a check: 0x1D00FFFF, 0x207FFFFF, 0x1C0FFFFF, 0x0500FFFF, 0x0B00FFFF
CompactTargets == {486604799, 545259519, 470810623, 83951615, 184614911}

\* T/8, T/4, T, 4T and 8T for the expected time span T
ActualTimeSpans ==
    {ExpectedTimeSpan \div 8, ExpectedTimeSpan \div 4, ExpectedTimeSpan,
     4 * ExpectedTimeSpan, 8 * ExpectedTimeSpan}

BlockData == 1..Len(HashTable)

MaxThreadCount == 5

Nonces == 0..3

\* max_iterations: 0 (no limit), 10, 2^32 and 2^32 + 6
IterationCounts == {<<0>>, <<10>>, <<0, 0, 1>>, <<6, 0, 1>>}

\* thread_count_ of the miner (at least 1 by construction)
ThreadCounts == 1..MaxThreadCount

\* numbers of elapsed halvings: around the first ones, around the 33rd (the
\* reward is below 2^33), around 64 and 128, and the largest, 20451
HalvingCounts == {0, 1, 2, 9, 10, 32, 33, 63, 64, 65, 127, 128, 20451}

\* block heights: the first and the last height of each of these periods,
\* and the largest uint32_t
RewardHeights ==
    {LET h == BigAdd(BigMulSmall(BigMulSmall(BigFromNat(k), 13125), 16), BigFromNat(r))
     IN  <<BigLimb(h, 1), BigLimb(h, 2)>> :
        k \in HalvingCounts, r \in {0, 209999}}
    \cup {<<LimbBase - 1, LimbBase - 1>>}

\* headers: small and large field values, heights 0 and above
SerialHeaders ==
    [version : {U32(1), <<LimbBase - 1, LimbBase - 1>>},
     prev_block_hash : {PowHash(0, 0, 0), PowHash(255, 1, 2)},
     merkle_root : {PowHash(7, 0, 9)},
     timestamp : {U32(0), <<513, 258>>},
     difficulty_target : {U32(InitialDifficulty)},
     nonce : {U32(0), <<3, 256>>},
     height : {U32(0), U32(5), <<0, 1>>}]

\* byte strings shorter than a header
ShortData == {<<>>, [i \in 1..79 |-> 0]}

\* the longest sequence of leaves, and the leaf values
MaxLeaves == 7

LeafValues == {<<"leaf", k>> : k \in 1..MaxLeaves}

\* sequences of distinct leaves and sequences of equal leaves
LeafSequences ==
    {[i \in 1..n |-> <<"leaf", i>>] : n \in 1..MaxLeaves}
    \cup {[i \in 1..n |-> <<"leaf", 1>>] : n \in 1..MaxLeaves}

\* outpoints whose keys are derived: hashes that differ in the first byte
\* or in the last two bytes (0x01 0x10, 0x11 0x00, 0x00 0x10), indexes
\* below and above 16 bits
KeyHashes == {<<0, 272>>, <<0, 4352>>, <<1, 16>>, <<17, 0>>}

KeyIndexes == {U32(0), U32(16), <<0, 1>>}

KeyOutPoints == KeyHashes \X KeyIndexes

\* the transaction hashes of a block: distinct ones, and a list whose last
\* transaction is repeated
MaxTxids == 4

TxidSequences ==
    {[i \in 1..n |-> <<"leaf", i>>] : n \in 0..MaxTxids}
    \cup {[i \in 1..(n + 1) |-> <<"leaf", IF i > n THEN n ELSE i>>] :
             n \in 1..(MaxTxids - 1)}

NextPure ==
    /\ \/ \E c \in CompactTargets, a \in ActualTimeSpans :
             CalculateNextDifficulty(c, a, ExpectedTimeSpan)
       \/ \E c \in CompactTargets, a \in ActualTimeSpans, r \in PowRatios :
             CalculateHybridDifficulty(c, a, ExpectedTimeSpan, r)
       \/ \E d \in BlockData, n \in Nonces, c \in CompactTargets :
             VerifyProofOfWork(d, n, c)
       \/ \E h \in RewardHeights, p \in BOOLEAN, s \in ShiftOutcomes :
             CalculateBlockReward(h, p, s)
       \/ \E x \in SerialHeaders : HeaderRoundTrip(x)
       \/ \E d \in ShortData : HeaderParse(d)
       \/ \E H \in LeafSequences, v \in LeafValues :
             \E i \in 0..(Len(H) - 1) : VerifyProof(H, i, v)
       \/ \E a \in KeyOutPoints, b \in KeyOutPoints : MakeUtxoKeys(a, b)
       \/ \E built_from \in TxidSequences, tx_hashes \in TxidSequences :
             ValidateMerkleRootOf(built_from, tx_hashes)
       \/ \E m \in IterationCounts : MineBlockRange(m)
       \/ \E m \in IterationCounts, t \in ThreadCounts : MineBlockParallelRanges(m, t)
    /\ UNCHANGED <<engine_vars, chain_vars, store_vars, miner_vars, iface_vars, cache_vars, slot_vars, thread_vars>>

SpecPure == Init /\ [][NextPure]_vars

(***************************************************************************)
(* One mining call, with a thread that may ask it to stop                  *)
(***************************************************************************)
MineOps == {"mine_block", "mine_block_parallel"}

\* max_iterations of the call (0, which stands for UINT32_MAX, is left out)
IterationLimits == {2, 4}

MaxThreads == 2

MinerThread ==
    \/ ResetStop
    \/ LaunchWorkers
    \/ ReturnInline
    \/ \E o \in WaitOutcomes : PollFuture(o)
    \/ EndOfPass
    \/ Join
    \/ Unwind

WorkerThread(w) == WorkerCheck(w) \/ WorkerTest(w)

NextMine ==
    /\ \/ \E op \in MineOps, d \in BlockData, n \in IterationLimits,
             t \in 1..MaxThreads, s \in ShiftOutcomes :
             EnterMine(op, d, InitialDifficulty, n, t, s)
       \/ MinerThread
       \/ \E w \in 1..MaxThreads : WorkerThread(w)
       \/ StopMining
    /\ UNCHANGED <<engine_vars, chain_vars, store_vars, fn_vars, iface_vars, cache_vars, slot_vars, thread_vars>>

SpecMine == Init /\ [][NextMine]_vars

\* every thread that can take a step takes one: the calling thread and the
\* workers are scheduled, a polling loop keeps polling
SpecMineFair ==
    /\ SpecMine
    /\ WF_vars(MinerThread /\ UNCHANGED <<engine_vars, chain_vars, store_vars, fn_vars, iface_vars, cache_vars, slot_vars, thread_vars>>)
    /\ \A w \in 1..MaxThreads :
          WF_vars(WorkerThread(w) /\ UNCHANGED <<engine_vars, chain_vars, store_vars, fn_vars, iface_vars, cache_vars, slot_vars, thread_vars>>)

(***************************************************************************)
(* Two branches from a common ancestor, delivered to the engine            *)
(***************************************************************************)
\* branch A: three blocks on the genesis block; branch B: two blocks on it.
\* All blocks carry the same difficulty target, so work(A) = 3 > work(B) = 2.
ForkHash(branch, height) ==
    IF height = 0 THEN 20 ELSE IF branch = "A" THEN 20 + height ELSE 30 + height

ForkBlock(branch, height) ==
    [hash |-> ForkHash(branch, height),
     prev |-> IF height = 0 THEN NullHash ELSE ForkHash(branch, height - 1),
     height |-> height,
     branch |-> branch]

ForkBlocks ==
    {ForkBlock("G", 0)} \cup {ForkBlock("A", h) : h \in 1..3}
                       \cup {ForkBlock("B", h) : h \in 1..2}

TipOfA == ForkHash("A", 3)

TipOfB == ForkHash("B", 2)

BranchWork(br) == Cardinality({b \in ForkBlocks : b.branch = br})

\* a block arrives, in any order, and is committed through
\* update_consensus_state
DeliverBlock(b) ==
    /\ b.hash \notin delivered
    /\ UpdateConsensusState(b.hash, b.height)
    /\ delivered' = delivered \cup {b.hash}

NextFork ==
    /\ \E b \in ForkBlocks : DeliverBlock(b)
    /\ UNCHANGED <<pen_hist, chain_vars, store_vars, fn_vars, miner_vars, iface_vars, cache_vars, slot_vars, thread_vars>>

SpecFork == Init /\ [][NextFork]_vars

(***************************************************************************)
(* The ledger: blocks handed to Blockchain::add_block                      *)
(***************************************************************************)
MaxNewBlocks == 2

NewBlocks ==
    IF Len(blocks) >= COINBASE_MATURITY THEN Len(blocks) - COINBASE_MATURITY
    ELSE Len(blocks)

\* the hashes a handed-over block may name as its predecessor: the tip, the
\* block below it, or none
PrevChoices ==
    {NullHash256} \cup {get_hash(blocks[k]) :
                          k \in {Len(blocks) - 1, Len(blocks)} \cap (1..Len(blocks))}

NonceChoices == {0, 1}

\* the difficulty_target a block declares: the one the chain expects, or
\* the easiest one
DeclaredTargets == {current_difficulty_target, MIN_DIFFICULTY_BITS}

TipHash == IF blocks = <<>> THEN NullHash256 ELSE get_hash(blocks[Len(blocks)])

\* the transaction lists that are varied in header fields as well: a lone
\* coinbase, and a coinbase with the transaction that repeats an input
VariedLists == {1, Len(TxLists)}

\* the blocks handed to add_block: every transaction list on every
\* predecessor, mined for the expected target; and on the tip, the varied
\* lists with every nonce, declared target and Merkle root
HandedBlocks ==
    {MakeBlock(prev, TxLists[i], current_difficulty_target, 0, TRUE) :
        i \in 1..Len(TxLists), prev \in PrevChoices}
    \cup {MakeBlock(TipHash, TxLists[i], target, nonce, merkle_ok) :
            i \in VariedLists, target \in DeclaredTargets,
            nonce \in NonceChoices, merkle_ok \in BOOLEAN}

\* a fresh ledger, or one that already holds COINBASE_MATURITY blocks
InitChain ==
    /\ EngineInit
    /\ FnInit
    /\ MinerInit
    /\ IfaceInit
    /\ CacheInit(Transaction_default) /\ SlotInit(0, 1000) /\ ThreadInit
    /\ StoreInit("leveldb")
    /\ \/ ChainInit
       \/ /\ blocks = BaseChain
          /\ utxo_set = BaseUtxos
          /\ current_difficulty_target = InitialDifficulty
          /\ chain_call = [op |-> "none", ret |-> FALSE]

NextChain ==
    /\ \/ NewBlocks < MaxNewBlocks /\ InitializeGenesis
       \/ /\ NewBlocks < MaxNewBlocks
          /\ \E block \in HandedBlocks : AddBlock(block)
    /\ UNCHANGED <<engine_vars, store_vars, fn_vars, miner_vars, iface_vars, cache_vars, slot_vars, thread_vars>>

SpecChain == InitChain /\ [][NextChain]_vars

(***************************************************************************)
(* The store: blocks handed to BlockchainStorageManager                    *)
(***************************************************************************)
Backends == {"memory", "leveldb"}

MaxStoredBlocks == 2

StoreHeights == {0, 1}

\* the transaction lists of the blocks handed to the store
StoreLists == {1, 3, 4}

\* the database write of a call that fails, counted from its first; 0: none
MaxIo == 4

StoreBlock(i, h) ==
    [MakeBlock(NullHash256, TxLists[i], InitialDifficulty, 0, TRUE)
        EXCEPT !.header.height = h]

InitStore ==
    /\ EngineInit
    /\ FnInit
    /\ MinerInit
    /\ IfaceInit
    /\ CacheInit(Transaction_default) /\ SlotInit(0, 1000) /\ ThreadInit
    /\ ChainInit
    /\ \E be \in Backends : StoreInit(be)

NextStore ==
    /\ \/ \E ok \in BOOLEAN : Initialize(ok)
       \/ /\ Cardinality(DOMAIN blocks_) < MaxStoredBlocks
          /\ \E i \in StoreLists, h \in StoreHeights, io \in 0..MaxIo :
                StoreBlockAtomic(StoreBlock(i, h), h, io)
       \/ \E i \in StoreLists : RemoveBlockAtomic(get_hash(StoreBlock(i, 0)))
    /\ UNCHANGED <<engine_vars, chain_vars, fn_vars, miner_vars, iface_vars, cache_vars, slot_vars, thread_vars>>

SpecStore == InitStore /\ [][NextStore]_vars

(***************************************************************************)
(* The storage interface: the same calls on both implementations           *)
(***************************************************************************)
IfaceBlocks == {StoreBlock(1, 0), StoreBlock(2, 1)}

\* a hash that nothing stored has (0xFF in every byte that the model keeps)
FakeHash == <<255, LimbBase - 1>>

\* the second block is reached through its height
IfaceBlockHashes == {get_hash(StoreBlock(1, 0)), FakeHash}

IfaceHeights == {0, 1, 999}

IfaceTransactions == {Coinbase(1)}

IfaceTxHashes == {Transaction_get_hash(tx) : tx \in IfaceTransactions} \cup {FakeHash}

\* two entries for the same outpoint, created at heights 0 and 7
IfaceUtxos == {UTXOEntryOf(Coinbase(1), 0, h) : h \in {0, 7}}

IfaceOutPoints ==
    {<<Transaction_get_hash(Coinbase(1)), U32(0)>>, <<FakeHash, U32(0)>>}

IfaceBlockMetadata ==
    {[block_hash |-> get_hash(StoreBlock(1, 0)), prev_block_hash |-> NullHash256,
      height |-> 0, tx_count |-> 1]}

IfaceTxMetadata ==
    {[tx_hash |-> Transaction_get_hash(Coinbase(1)),
      block_hash |-> get_hash(StoreBlock(1, 0)), block_height |-> 0, tx_index |-> 0]}

IfaceCalls ==
    [op : {"store_block"}, arg : IfaceBlocks]
    \cup [op : {"get_block", "has_block", "remove_block", "get_block_metadata",
                "set_best_block_hash"},
          arg : IfaceBlockHashes]
    \cup [op : {"get_block_by_height", "get_block_metadata_by_height"},
          arg : IfaceHeights]
    \cup [op : {"store_block_metadata"}, arg : IfaceBlockMetadata]
    \cup [op : {"store_transaction"}, arg : IfaceTransactions]
    \cup [op : {"get_transaction", "has_transaction", "remove_transaction",
                "get_transaction_metadata"},
          arg : IfaceTxHashes]
    \cup [op : {"store_transaction_metadata"}, arg : IfaceTxMetadata]
    \cup [op : {"add_utxo"}, arg : IfaceUtxos]
    \cup [op : {"get_utxo", "has_utxo", "remove_utxo"}, arg : IfaceOutPoints]
    \cup [op : {"get_best_block_hash", "get_blockchain_height", "get_utxo_count"},
          arg : {<<>>}]

NextIface ==
    /\ \E c \in IfaceCalls : IfaceCall(c)
    /\ UNCHANGED <<engine_vars, chain_vars, store_vars, fn_vars, miner_vars, cache_vars, slot_vars, thread_vars>>

SpecIface == Init /\ [][NextIface]_vars

(***************************************************************************)
(* SpecRace: two threads call one engine                                   *)
(***************************************************************************)
\* the calls a thread makes
RaceCalls ==
    {EngineCall("add_validator", "start", 1, 2, <<>>),
     EngineCall("add_validator", "start", 2, 3, <<>>),
     EngineCall("update_stake", "start", 1, 3, <<>>),
     EngineCall("penalize_validator", "start", 1, 95, <<>>)}

\* the rounds of two calls that are begun
MaxRounds == 2

NextRace ==
    /\ \/ /\ engine_calls.rounds < MaxRounds
          /\ \E c1 \in RaceCalls, c2 \in RaceCalls : StartCalls(c1, c2)
       \/ \E t \in CallThreads : ThreadStep(t)
    /\ UNCHANGED <<chain_vars, store_vars, fn_vars, miner_vars, iface_vars, cache_vars, slot_vars>>

SpecRace == Init /\ [][NextRace]_vars

(***************************************************************************)
(* SpecUtxo: two threads call one UTXOManager over a MemoryStorage         *)
(***************************************************************************)
\* the transactions whose first output the calls are about
UtxoTransactions == {Coinbase(1), Coinbase(2)}

UtxoOutPoints == {<<Transaction_get_hash(tx), U32(0)>> : tx \in UtxoTransactions}

InitUtxo ==
    /\ EngineInit /\ ChainInit /\ StoreInit("memory") /\ FnInit /\ MinerInit
    /\ IfaceInit /\ CacheInit(Transaction_default) /\ SlotInit(0, 1000) /\ ThreadInit

NextUtxo ==
    /\ \E t \in CallThreads :
          \/ \E op \in {"get_utxo", "has_utxo"}, o \in UtxoOutPoints :
                GetUtxoLookup(t, op, o[1], o[2])
          \/ GetUtxoStorage(t)
          \/ GetUtxoFill(t)
          \/ \E tx \in UtxoTransactions : AddUtxoStorage(t, tx, 0, 0)
          \/ AddUtxoFill(t)
          \/ \E o \in UtxoOutPoints : RemoveUtxoStorage(t, o[1], o[2])
          \/ RemoveUtxoErase(t)
    /\ UNCHANGED <<backend, initialized_, current_batch, store_call, store_before>>
    /\ UNCHANGED <<engine_vars, chain_vars, fn_vars, miner_vars, iface_vars, cache_vars, slot_vars>>

SpecUtxo == InitUtxo /\ [][NextUtxo]_vars

(***************************************************************************)
(* SpecCache: a caller holds a Transaction or a Block, assigns its public  *)
(* fields and asks for its hashes                                          *)
(***************************************************************************)
CoinbaseInput ==
    [prev_tx_hash |-> NullHash256, prev_output_index |-> COINBASE_OUTPUT_INDEX]

\* the values a caller assigns to the fields of the Transaction
FieldValues ==
    ({"version"} \X {1, 2})
    \cup ({"locktime"} \X {0, 5})
    \cup ({"inputs"} \X {<<>>, <<CoinbaseInput>>})
    \cup ({"outputs"} \X {<<>>, <<Out(CoinbaseValue)>>})
    \cup ({"witnesses"} \X {<<>>, << <<1>> >>})

\* an invalid compact target (exponent 3): no digest but zero meets it
ZeroTargetBits == 50331649

BlockTargets == {InitialDifficulty, ZeroTargetBits}

BlockNonces == {0, 1}

MineLimits == {0, 2}

BlockHeaderOf(difficulty_target) ==
    [height |-> 0, difficulty_target |-> difficulty_target, nonce |-> 1,
     prev_block_hash |-> NullHash256, merkle_root |-> <<>>]

\* the objects a caller starts with: a default Transaction, or a Block
\* built from a header and a coinbase
HeldObjects ==
    {Transaction_default}
    \cup {Block(BlockHeaderOf(t), <<Transaction(1, <<CoinbaseInput>>, <<Out(CoinbaseValue)>>, 0)>>) :
             t \in BlockTargets}

PushedTransactions == {Transaction(2, <<In(<<0, 1000>>, 0)>>, <<Out(3000)>>, 0)}

InitCache ==
    /\ EngineInit /\ ChainInit /\ StoreInit("leveldb") /\ FnInit /\ MinerInit
    /\ IfaceInit /\ SlotInit(0, 1000) /\ ThreadInit
    /\ \E o \in HeldObjects : CacheInit(o)

NextCache ==
    /\ \/ \E fv \in FieldValues : AssignField(fv[1], fv[2])
       \/ GetHash
       \/ GetWtxid
       \/ TxClearCache
       \/ \E nonce \in BlockNonces : AssignNonce(nonce)
       \/ \E version \in {1, 2} : AssignTxVersion(1, version)
       \/ \E tx \in PushedTransactions : PushTransaction(tx)
       \/ BlockGetHash
       \/ CalculateMerkleRoot
       \/ UpdateMerkleRoot
       \/ ValidateMerkleRoot
       \/ \E max_iterations \in MineLimits : BlockMine(max_iterations)
       \/ \E max_iterations \in MineLimits : MiningMineBlock(max_iterations)
       \/ BlockClearCache
    /\ UNCHANGED <<engine_vars, chain_vars, store_vars, fn_vars, miner_vars, iface_vars,
                   slot_vars, thread_vars>>

SpecCache == InitCache /\ [][NextCache]_vars

(***************************************************************************)
(* SpecSlot: validators are added and mature, blocks are produced and      *)
(* validated, slots are generated and the read operations are called       *)
(***************************************************************************)
\* seeds the steady clock gives to rng_
RngSeeds == {0, 1}

\* pos_activation_height of the genesis state: within the heights of the
\* model, and the default of ConsensusState
ActivationHeights == {2, 1000}

\* heights delivered to update_consensus_state
SlotHeights == {0, StakeMaturityBlocks}

\* from_time and slot_count offered to generate_upcoming_slots
FromTimes == {0, 50}

MaxSlots == 3

\* the validators that produce blocks
Producers == {1}

InitSlot ==
    /\ EngineInit /\ ChainInit /\ StoreInit("leveldb") /\ FnInit /\ MinerInit
    /\ IfaceInit /\ CacheInit(Transaction_default)
    /\ \E activation \in ActivationHeights : SlotInit(0, activation)
    /\ ThreadInit

Unregistered(id) == id \notin DOMAIN validators

NextSlot ==
    /\ \/ \E id \in ValidatorIds, s \in PosStakes :
             Unregistered(id) /\ AddValidator(id, s)
       \/ \E h \in SlotHeights : UpdateConsensusState(HashAtHeight(h), h)
       \/ \E id \in Producers : BlocksCreatedBelowCap(id) /\ CreatePosBlock(id)
       \/ Tick
       \/ \E from_time \in FromTimes, slot_count \in 0..MaxSlots :
             GenerateUpcomingSlots(from_time, slot_count)
       \/ \E id \in Producers \cup {NullHash} : ValidateBlock(1, 0, id)
       \/ \E id \in Producers : GetValidator(id)
       \/ GetActiveValidators
       \/ CalculateNetworkStats
       \/ EngineBlockReward(U32(current_height), FALSE)
    /\ UNCHANGED <<delivered, pen_hist, slot_vars, thread_vars>>
    /\ UNCHANGED <<chain_vars, store_vars, fn_vars, miner_vars, iface_vars, cache_vars>>

SpecSlot == InitSlot /\ [][NextSlot]_vars

(***************************************************************************)
(* SpecSelect: select_validator_by_stake is called again and again, while  *)
(* the clock advances and on engines constructed at different times        *)
(***************************************************************************)
InitSelect ==
    /\ EngineInit /\ ChainInit /\ StoreInit("leveldb") /\ FnInit /\ MinerInit
    /\ IfaceInit /\ CacheInit(Transaction_default)
    /\ \E seed \in RngSeeds : SlotInit(seed, 1000)
    /\ ThreadInit

\* whether the call of select_validator_by_stake about to be made repeats
\* the engine's last call
RepeatsSelect(slot_time, previous_block_hash) ==
    /\ last_call.op = "select_validator_by_stake"
    /\ last_call.arg = slot_time
    /\ last_call.id = previous_block_hash

NextSelect ==
    \/ /\ \/ \E id \in ValidatorIds, s \in PosStakes :
                Unregistered(id) /\ AddValidator(id, s)
          \/ \E h \in PosHeights : UpdateConsensusState(HashAtHeight(h), h)
          \/ \E id \in Producers : BlocksCreatedBelowCap(id) /\ CreatePosBlock(id)
          \/ Tick
       /\ UNCHANGED <<delivered, pen_hist, slot_vars, thread_vars>>
       /\ UNCHANGED <<chain_vars, store_vars, fn_vars, miner_vars, iface_vars, cache_vars>>
    \/ /\ \E t \in SlotTimes, h \in PosHeights :
             /\ SelectValidator(t, HashAtHeight(h))
             /\ slot_call' =
                   [op |-> "select_validator_by_stake", rng |-> rng_, time |-> now,
                    again |-> RepeatsSelect(t, HashAtHeight(h)),
                    first_ret |-> IF RepeatsSelect(t, HashAtHeight(h))
                                  THEN last_call.ret ELSE NullHash,
                    other_env |-> /\ RepeatsSelect(t, HashAtHeight(h))
                                  /\ slot_call.op = "select_validator_by_stake"
                                  /\ slot_call.rng # rng_
                                  /\ slot_call.time # now]
       /\ UNCHANGED <<delivered, pen_hist, rng_, pos_activation_height>>
       /\ UNCHANGED <<chain_vars, store_vars, fn_vars, miner_vars, iface_vars, cache_vars, thread_vars>>
    \/ /\ \E seed \in RngSeeds : OtherEngine(seed)
       /\ UNCHANGED <<chain_vars, store_vars, fn_vars, miner_vars, iface_vars, cache_vars, thread_vars>>

SpecSelect == InitSelect /\ [][NextSelect]_vars

(***************************************************************************)
(* Claims about the consensus engine                                       *)
(***************************************************************************)
\* C3: once every block of both branches has been delivered, the best block
\* is the tip of the branch with more work (branch A), whatever the order
\* of arrival.
C3_ForkConvergence ==
    (BranchWork("A") > BranchWork("B") /\ delivered = {b.hash : b \in ForkBlocks})
        => best_block_hash = TipOfA

\* the validator chosen for the slot that starts now
SelectedNow == select_validator_by_stake(now, best_block_hash)

\* a step in which create_pos_block recorded a produced block for id
RecordsBlock(id) ==
    /\ id \in DOMAIN validators
    /\ id \in DOMAIN validators'
    /\ validators'[id].total_blocks_created = validators[id].total_blocks_created + 1

\* C6: create_pos_block records a produced block for V only if V is
\* registered, active, has an unlocked stake, respects the 30 s minimum
\* interval and is the validator selected for the current slot.
C6_PosBlockOnlyIfEligible ==
    [][\A id \in ValidatorIds :
          RecordsBlock(id) => (is_validator_eligible(id, now) /\ SelectedNow = id)]_vars

\* what the code guarantees of the id r returned for slot time t: r is
\* registered, active, unlocked and, if it ever produced a block, t is at
\* least 30 s after it
SelectedIsEligible(r, t) ==
    /\ r \in DOMAIN validators
    /\ validators[r].is_active
    /\ r \in DOMAIN stakes
    /\ ~stakes[r].is_locked
    /\ validators[r].last_block_time > 0 =>
           t >= validators[r].last_block_time + min_block_interval

\* no validator can be chosen at slot time t: none is eligible, or the
\* eligible ones weigh nothing
NothingToSelect(t) ==
    \/ \A id \in DOMAIN validators : ~is_validator_eligible(id, t)
    \/ \A id \in DOMAIN validators :
          is_validator_eligible(id, t) => validators[id].stake_amount = 0

\* C7 as stated: the returned id is null or a validator that exists, is
\* active, has an unlocked stake and satisfies t >= last_block_time + 30,
\* also when last_block_time is 0.
C7_SelectedRespectsIntervalAlways ==
    last_call.op = "select_validator_by_stake" =>
        LET r == last_call.ret
            t == last_call.arg
        IN  \/ r = NullHash
            \/ /\ SelectedIsEligible(r, t)
               /\ t >= validators[r].last_block_time + min_block_interval

\* C7 as amended: the returned id is null or a validator that exists, is
\* active, has an unlocked stake and, unless its last_block_time is 0,
\* satisfies t >= last_block_time + 30; the null id is returned whenever no
\* validator is eligible or the total weight is 0.
C7_SelectedIsEligible ==
    last_call.op = "select_validator_by_stake" =>
        LET r == last_call.ret
            t == last_call.arg
        IN  /\ r = NullHash \/ SelectedIsEligible(r, t)
            /\ NothingToSelect(t) => r = NullHash

\* a validator that produced a block before has been selected for a later slot
C7_Witness ==
    /\ last_call.op = "select_validator_by_stake"
    /\ last_call.ret \in DOMAIN validators
    /\ validators[last_call.ret].last_block_time > 0
    /\ \E id \in DOMAIN validators : ~is_validator_eligible(id, last_call.arg)

\* C8: add_validator(id, pk, s) returns false and changes nothing when
\* s < min_stake_amount; otherwise it returns true, validators[id] has stake
\* s, reputation 100 and is active, stakes[id] has amount s, lock_height =
\* current_height + stake_maturity_blocks and is locked, and total_stake has
\* grown by exactly s.
C8_AddValidator ==
    [][last_call'.op = "add_validator" =>
          LET id == last_call'.id
              s == last_call'.arg
          IN  IF s < MinStakeAmount
              THEN ~last_call'.ret /\ UNCHANGED consensus_state
              ELSE /\ last_call'.ret
                   /\ id \in DOMAIN validators'
                   /\ validators'[id].stake_amount = s
                   /\ validators'[id].reputation_score = U32(100)
                   /\ validators'[id].is_active
                   /\ id \in DOMAIN stakes'
                   /\ stakes'[id].amount = s
                   /\ stakes'[id].lock_height = current_height + StakeMaturityBlocks
                   /\ stakes'[id].is_locked
                   /\ total_stake' = total_stake + s]_vars

\* a validator was registered again at a later height
C8_Witness ==
    /\ last_call.op = "add_validator"
    /\ last_call.ret
    /\ current_height > 0
    /\ total_stake > stakes[last_call.id].amount

\* C9: remove_validator(id) succeeds, erasing the validator and its stake
\* entry and subtracting the stake amount from total_stake, only if id is
\* registered and current_height >= lock_height; otherwise it returns false
\* and changes nothing.
C9_RemoveValidator ==
    [][last_call'.op = "remove_validator" =>
          LET id == last_call'.id
          IN  IF last_call'.ret
              THEN /\ id \in DOMAIN validators
                   /\ id \in DOMAIN stakes
                   /\ current_height >= stakes[id].lock_height
                   /\ validators' = MapErase(validators, id)
                   /\ stakes' = MapErase(stakes, id)
                   /\ total_stake' = total_stake - stakes[id].amount
              ELSE UNCHANGED consensus_state]_vars

\* a validator was removed while another one stayed registered
C9_Witness ==
    /\ last_call.op = "remove_validator"
    /\ last_call.ret
    /\ last_call.id \notin DOMAIN validators
    /\ DOMAIN validators # {}

\* C10: for a validator added at height h0, while the commits go to
\* increasing heights, the stake is locked (and the validator not eligible)
\* exactly while current_height < h0 + stake_maturity_blocks, and unlocked
\* from the commit at h0 + stake_maturity_blocks on.
C10_StakeMaturity ==
    \A id \in DOMAIN stakes :
        stake_hist[id].increasing =>
            /\ stakes[id].is_locked <=>
                   current_height < stake_hist[id].added_at + StakeMaturityBlocks
            /\ stakes[id].is_locked =>
                   \A t \in SlotTimes : ~is_validator_eligible(id, t)

\* a stake that matured exactly at h0 + k and one that is still locked
C10_Witness ==
    /\ last_call.op = "update_consensus_state"
    /\ \E id \in DOMAIN stakes :
          /\ stake_hist[id].increasing
          /\ ~stakes[id].is_locked
          /\ current_height = stake_hist[id].added_at + StakeMaturityBlocks
    /\ \E id \in DOMAIN stakes :
          /\ stake_hist[id].increasing
          /\ stakes[id].is_locked
          /\ current_height > stake_hist[id].added_at

\* C11: a successful update_stake at height h restarts the lock period: the
\* stake is locked with lock_height >= h + stake_maturity_blocks, so the
\* validator is not eligible for any slot and cannot be removed before then.
C11_UpdateStakeRestartsLock ==
    [][(last_call'.op = "update_stake" /\ last_call'.ret) =>
          LET id == last_call'.id
          IN  /\ stakes'[id].is_locked
              /\ stakes'[id].lock_height >= current_height + StakeMaturityBlocks]_vars

\* C12: penalize_validator(id, p) on a registered validator sets the
\* reputation to max(0, reputation - p), also when p > reputation, adds one
\* to missed_slots and deactivates the validator if the new reputation is
\* below 10.
C12_PenalizeSaturates ==
    [][(last_call'.op = "penalize_validator" /\ last_call'.id \in DOMAIN validators) =>
          LET id == last_call'.id
              p == U32(last_call'.arg)
              v == validators[id]
              w == validators'[id]
              expected == IF U32Lt(v.reputation_score, p) THEN U32(0)
                          ELSE U32Sub(v.reputation_score, p)
          IN  /\ w.reputation_score = expected
              /\ w.missed_slots = v.missed_slots + 1
              /\ w.is_active = (v.is_active /\ ~U32Lt(expected, U32(10)))]_vars

\* C13: a freshly added validator that was only penalized, by 91 points or
\* more in total, is inactive, and a following reward of 50 points or more
\* makes it active again.
C13_PenaltyThresholds ==
    [][\A id \in DOMAIN pen_hist' :
          /\ (pen_hist'[id].pure /\ pen_hist'[id].total >= 91)
                => ~validators'[id].is_active
          /\ (/\ id \in DOMAIN pen_hist
              /\ pen_hist[id].pure /\ pen_hist[id].total >= 91
              /\ last_call'.op = "reward_validator"
              /\ last_call'.id = id /\ last_call'.arg >= 50)
                => validators'[id].is_active]_vars

\* C14: through add_validator, penalize_validator and reward_validator,
\* every validator's reputation_score stays within [0, 100].
C14_ReputationInRange ==
    \A id \in DOMAIN validators : U32Leq(validators[id].reputation_score, U32(100))

\* C15: every successful update_consensus_state for a block B leaves
\* best_block_hash = B.hash and current_height = B.height and has added the
\* (positive) work of B to total_chain_work.
C15_CommitAdvancesWork ==
    [][(last_call'.op = "update_consensus_state" /\ last_call'.ret) =>
          /\ best_block_hash' = last_call'.id
          /\ current_height' = last_call'.arg
          /\ total_chain_work' > total_chain_work]_vars

\* the 256-bit target of a compact target: mantissa * 256^(exponent - 3)
CompactTarget(bits) ==
    LET exponent == bits \div (256 * 256 * 256)
        mantissa == bits % (256 * 256 * 256)
    IN  IF exponent <= 3
        THEN BigFromNat(mantissa \div (2 ^ (8 * (3 - exponent))))
        ELSE BigShlBytes(BigFromNat(mantissa), exponent - 3)

\* the 256-bit big-endian value of a hash
HashValue256(hash) ==
    BigNorm([j \in 1..16 |-> hash[34 - 2 * j] + 256 * hash[33 - 2 * j]])

\* C16: the target of the result of calculate_next_difficulty is at most 4
\* times and at least one quarter of the target of current_difficulty.
C16_RetargetClamped ==
    fn_call.op = "calculate_next_difficulty" =>
        /\ BigLeq(CompactTarget(fn_call.ret),
                  BigMulSmall(CompactTarget(fn_call.current_difficulty), 4))
        /\ BigLeq(CompactTarget(fn_call.current_difficulty),
                  BigMulSmall(CompactTarget(fn_call.ret), 4))

\* C17: every result of calculate_next_difficulty and of
\* calculate_hybrid_difficulty satisfies is_valid_difficulty_target, and a
\* hybrid value that is invalid is replaced by the time-based value.
C17_ResultIsValidTarget ==
    fn_call.op \in {"calculate_next_difficulty", "calculate_hybrid_difficulty"} =>
        /\ is_valid_difficulty_target(fn_call.ret)
        /\ ~is_valid_difficulty_target(
                hybrid_adjusted_difficulty(fn_call.new_difficulty_bits,
                                           fn_call.pow_ratio))
              => fn_call.ret = calculate_next_difficulty(fn_call.new_difficulty_bits)

\* C18: verify_proof_of_work is true exactly when the 256-bit big-endian
\* value of the hash is at most mantissa * 256^(exponent - 3).
C18_FullWidthTargetCheck ==
    fn_call.op = "verify_proof_of_work" =>
        (fn_call.ret <=>
            BigLeq(HashValue256(compute_block_hash(fn_call.block_data, fn_call.nonce)),
                   CompactTarget(fn_call.difficulty_target)))

\* C19: every call of mine_block and mine_block_parallel terminates: once
\* entered, it returns a MiningResult.
C19_MiningTerminates ==
    (miner.pc = "entered") ~> (miner.pc = "returned")

\* C20: a stop_mining() request made after the call was entered is not
\* lost: from then on every worker tests at most one more nonce.
C20_StopNotLost ==
    stop_hist.requested =>
        \A w \in DOMAIN stop_hist.tested : stop_hist.tested[w] <= 1

\* the ranges start at 0 and each begins where the one before it ends
RangesContiguous(ranges) ==
    /\ ranges[1].start_nonce = <<0>>
    /\ \A w \in 1..(Len(ranges) - 1) :
          ranges[w + 1].start_nonce =
              BigAdd(ranges[w].start_nonce, ranges[w].nonce_range)

\* one past the last nonce of the last range
RangesEnd(ranges) ==
    BigAdd(ranges[Len(ranges)].start_nonce, ranges[Len(ranges)].nonce_range)

\* C21: with max_iterations = 0 the nonce ranges of the workers (the single
\* range of mine_block included) are disjoint and contiguous from 0 and
\* their union is the whole nonce space [0, 2^32).
C21_RangesCoverNonceSpace ==
    (fn_call.op \in {"mine_block", "mine_block_parallel"}
        /\ BigIsZero(fn_call.max_iterations)) =>
        /\ RangesContiguous(fn_call.ranges)
        /\ RangesEnd(fn_call.ranges) = NonceSpaceEnd

\* the workers whose results mine_block_parallel has taken with get()
Collected == {w \in DOMAIN futures : futures[w] = "got"}

\* the nonces tested by the workers of the set ws
RECURSIVE HashOperationsOf(_)
HashOperationsOf(ws) ==
    IF ws = {}
    THEN 0
    ELSE LET w == CHOOSE x \in ws : TRUE
         IN  workers[w].result.hash_operations + HashOperationsOf(ws \ {w})

ParallelSucceeded ==
    /\ miner.pc = "returned"
    /\ miner.op = "mine_block_parallel"
    /\ miner.result.success

\* C22: when mine_block_parallel succeeds, nonce and block_hash are those
\* of a worker that found a solution and hash_operations is at least the
\* number of nonces tested by the workers whose results were collected,
\* the winner included.
C22_SuccessAggregatesHashOperations ==
    ParallelSucceeded =>
        /\ \E w \in Collected :
              /\ workers[w].result.success
              /\ miner.result.nonce = workers[w].result.nonce
              /\ miner.result.block_hash = workers[w].result.block_hash
        /\ miner.result.hash_operations >= HashOperationsOf(Collected)

\* 5 000 000 000 >> k as a number: the quotient by 2^k, 0 from k = 64 on
Subsidy(k) == IF k >= 64 THEN <<0>> ELSE BigShr(GENESIS_BLOCK_REWARD, k)

\* C23: calculate_block_reward(h, true) is 5 000 000 000 >> (h / 210000),
\* is 0 once h / 210000 >= 64, does not exceed the reward of any lower
\* height, agrees with validation::calculate_block_reward(h); the PoS reward
\* is 80 percent of it.
C23_RewardHalves ==
    fn_call.op = "calculate_block_reward" =>
        LET h == fn_call.block_height
            pow == calculate_block_reward(h, TRUE, fn_call.wide_shift)
        IN  /\ pow = Subsidy(U32Div(h, HALVING_INTERVAL))
            /\ \A g \in RewardHeights :
                  U32Leq(g, h) =>
                      BigLeq(pow, calculate_block_reward(g, TRUE, fn_call.wide_shift))
            /\ pow = validation_calculate_block_reward(h)
            /\ fn_call.is_pow_block => fn_call.ret = pow
            /\ ~fn_call.is_pow_block =>
                  fn_call.ret = BigDivSmall(BigMulSmall(pow, 4), 5)

\* C26: deserialize(serialize(x)) succeeds and equals x in all of version,
\* prev_block_hash, merkle_root, timestamp, difficulty_target, nonce and
\* height, and serialize(x) is exactly 80 bytes long.
C26_HeaderRoundTrip ==
    fn_call.op = "BlockHeader::serialize" =>
        /\ Len(fn_call.data) = 80
        /\ fn_call.ret.has_value
        /\ fn_call.ret.value = fn_call.header

\* C27: for every non-empty sequence H of leaf hashes and every index
\* i < |H|, verify_proof(H[i], get_proof(i), get_root(), i, |H|) is true.
C27_MerkleProofVerifies ==
    (fn_call.op = "verify_proof"
        /\ fn_call.leaf_hash = fn_call.leaf_hashes[fn_call.leaf_index + 1])
        => fn_call.ret

\* the last leaf of five: it has no sibling at the first and at the second
\* level, and its proof is accepted
C27_Witness ==
    /\ fn_call.op = "verify_proof"
    /\ Len(fn_call.leaf_hashes) = 5
    /\ fn_call.leaf_index = 4
    /\ fn_call.leaf_hash = fn_call.leaf_hashes[5]
    /\ Len(fn_call.proof) = 3
    /\ fn_call.proof[1] = fn_call.leaf_hashes[5]
    /\ fn_call.ret

(***************************************************************************)
(* Claims about the ledger                                                 *)
(***************************************************************************)
\* C1: whenever add_block returns false, the UTXO set, the list of blocks
\* and the current difficulty target are what they were before the call.
C1_FailedAddBlockChangesNothing ==
    [][(chain_call'.op = "add_block" /\ ~chain_call'.ret) => UNCHANGED chain_state]_vars

\* some transaction of the block that is no coinbase names one outpoint in
\* two of its inputs
HasRepeatedInput(block) ==
    \E k \in 1..Len(block.transactions) :
        /\ ~is_coinbase(block.transactions[k])
        /\ \E i, j \in 1..Len(block.transactions[k].inputs) :
              /\ i # j
              /\ InputOutPoints(block.transactions[k])[i] =
                     InputOutPoints(block.transactions[k])[j]

\* C28: a block with a non-coinbase transaction that names the same
\* outpoint in two inputs is structurally invalid: validate_structure and
\* is_valid are false for it, and add_block does not append it.
C28_RepeatedInputRejected ==
    (chain_call.op = "add_block" /\ HasRepeatedInput(chain_call.block)) =>
        /\ ~validate_structure(chain_call.block)
        /\ ~Block_is_valid(chain_call.block)
        /\ ~chain_call.ret

\* C29: add_block rejects every block whose header.difficulty_target is
\* not the target the chain expects when the call is made.
C29_DeclaredTargetChecked ==
    [][(chain_call'.op = "add_block"
          /\ chain_call'.block.header.difficulty_target # current_difficulty_target)
         => ~chain_call'.ret]_vars

(***************************************************************************)
(* Claims about the store                                                  *)
(***************************************************************************)
\* the outpoints of the UTXOs the storage holds
StoredOutPoints ==
    {OutPoint(utxos_[k].tx_hash, utxos_[k].output_index) : k \in DOMAIN utxos_}

\* some input of a non-coinbase transaction, from the i-th transaction on,
\* names an outpoint that is not among the unspent ones when its turn comes
RECURSIVE SpendsMissing(_, _, _)
SpendsMissing(unspent, transactions, i) ==
    IF i > Len(transactions) THEN FALSE
    ELSE LET tx == transactions[i]
             spent == IF is_coinbase(tx) THEN <<>> ELSE InputOutPoints(tx)
             created == {OutPoint(Transaction_get_hash(tx), U32(k - 1)) :
                            k \in 1..Len(tx.outputs)}
         IN  \/ \E j \in 1..Len(spent) :
                   \/ spent[j] \notin unspent
                   \/ \E l \in 1..(j - 1) : spent[l] = spent[j]
             \/ SpendsMissing((unspent \ {spent[j] : j \in 1..Len(spent)}) \cup created,
                              transactions, i + 1)

\* C2: store_block_atomic returns false for any block with a non-coinbase
\* input whose outpoint is not in the UTXO set when it is spent.
C2_MissingInputRejected ==
    [][(/\ store_call'.op = "store_block_atomic"
        /\ SpendsMissing(StoredOutPoints, store_call'.transactions, 1))
          => ~store_call'.ret]_vars

\* C4: when store_block_atomic returns false, the storage (blocks, height
\* index, transactions, UTXOs, best block hash) and the UTXO cache are what
\* they were before the call.
C4_FailedStoreChangesNothing ==
    [][(store_call'.op = "store_block_atomic" /\ ~store_call'.ret)
          => UNCHANGED storage_state]_vars

\* C5: after store_block_atomic accepted B, a following remove_block_atomic
\* of hash(B) that returns true leaves the storage and the cache as they
\* were before B was stored.
C5_RemoveRevertsStore ==
    [][(/\ store_call.op = "store_block_atomic"
        /\ store_call.ret
        /\ store_call'.op = "remove_block_atomic"
        /\ store_call'.ret
        /\ store_call'.block_hash = store_call.block_hash)
          => /\ blocks_' = store_before.blocks_
             /\ height_to_hash_' = store_before.height_to_hash_
             /\ transactions_' = store_before.transactions_
             /\ utxos_' = store_before.utxos_
             /\ best_block_hash_' = store_before.best_block_hash_
             /\ utxo_cache_' = store_before.utxo_cache_]_vars



(***************************************************************************)
(* Claims about the storage interface                                      *)
(***************************************************************************)
Implementations == {"memory", "leveldb"}

\* the outpoint of the last UTXO call is in the storage be before the call
UtxoPresentBefore(be, tx_hash, output_index) ==
    make_utxo_key(be, tx_hash, output_index) \in DOMAIN iface_call.before[be].utxos_

StorageNow(be) == IF be = "memory" THEN memory_storage ELSE leveldb_storage

\* C24: in both implementations add_utxo on an outpoint that is present
\* returns ALREADY_EXISTS and leaves the stored entry unchanged, and
\* remove_utxo on an absent outpoint returns NOT_FOUND and changes nothing.
C24_UtxoDuplicateAndAbsent ==
    \A be \in Implementations :
        /\ (iface_call.op = "add_utxo"
              /\ UtxoPresentBefore(be, iface_call.arg.tx_hash, iface_call.arg.output_index))
             => /\ iface_call[be].res = "ALREADY_EXISTS"
                /\ StorageNow(be) = iface_call.before[be]
        /\ (iface_call.op = "remove_utxo"
              /\ ~UtxoPresentBefore(be, iface_call.arg[1], iface_call.arg[2]))
             => /\ iface_call[be].res = "NOT_FOUND"
                /\ StorageNow(be) = iface_call.before[be]

\* C25: every call returns the same StorageResult and the same data from
\* MemoryStorage and from LevelDBStorage.
C25_ImplementationsAgree ==
    iface_call.op # "none" =>
        /\ iface_call.memory.res = iface_call.leveldb.res
        /\ iface_call.memory.data = iface_call.leveldb.data

(***************************************************************************)
(* Claims about memoized hashes                                            *)
(***************************************************************************)
\* the Merkle root of the transactions as they are now
CurrentMerkleRoot(block) ==
    IF block.transactions = <<>> THEN <<>>
    ELSE build_tree([i \in 1..Len(block.transactions) |->
            <<"leaf", double_hash(Transaction_serialize_legacy(block.transactions[i]))>>])[1]

\* C30: memoized hashes never go stale: whatever was assigned before,
\* Transaction::get_hash and get_wtxid return the hash of the current
\* contents, and Block::get_hash, calculate_merkle_root and
\* validate_merkle_root (and the hash mining::mine_block reports) are those
\* of the current header and transactions.
C30_MemoizedHashesCurrent ==
    /\ cache_call.op = "Transaction::get_hash" =>
          cache_call.ret = double_hash(Transaction_serialize_legacy(obj))
    /\ cache_call.op = "Transaction::get_wtxid" =>
          cache_call.ret = double_hash(Transaction_serialize(obj))
    /\ cache_call.op = "Block::get_hash" =>
          cache_call.ret = calculate_hash(obj.header)
    /\ cache_call.op = "Block::calculate_merkle_root" =>
          cache_call.ret = CurrentMerkleRoot(obj)
    /\ cache_call.op = "Block::validate_merkle_root" =>
          cache_call.ret = (obj.header.merkle_root = CurrentMerkleRoot(obj))
    /\ (cache_call.op = "mining::mine_block" /\ cache_call.ret.success) =>
          cache_call.ret.hash = calculate_hash(obj.header)

C32_UpcomingSlots ==
    last_call.op = "generate_upcoming_slots" =>
        /\ Len(last_call.ret) = last_call.slot_count
        /\ \A k \in 1..Len(last_call.ret) :
              /\ last_call.ret[k].block_height = current_height + k
              /\ last_call.ret[k].slot_time >
                    (IF k = 1 THEN last_call.from_time
                     ELSE last_call.ret[k - 1].slot_time)
              /\ last_call.ret[k].block_height < pos_activation_height =>
                    last_call.ret[k].validator_id = NullHash
              /\ (/\ last_call.ret[k].block_height >= pos_activation_height
                  /\ (k - 1) % 2 = 1) =>
                    last_call.ret[k].validator_id = NullHash
              /\ (/\ last_call.ret[k].block_height >= pos_activation_height
                  /\ (k - 1) % 2 = 0) =>
                    last_call.ret[k].validator_id =
                        select_validator_by_stake(last_call.ret[k].slot_time,
                                                  best_block_hash)

\* slots generated across the activation height, one of them given to a
\* validator
C32_Witness ==
    /\ last_call.op = "generate_upcoming_slots"
    /\ last_call.slot_count >= 3
    /\ \E k \in 1..Len(last_call.ret) :
          last_call.ret[k].block_height < pos_activation_height
    /\ \E k \in 1..Len(last_call.ret) :
          last_call.ret[k].validator_id # NullHash

\* the operations that are no block ingestion, validator management or
\* retarget
ReadOperations ==
    {"validate_block", "generate_upcoming_slots", "get_validator",
     "get_active_validators", "calculate_network_stats",
     "calculate_block_reward", "create_pos_block"}

\* C33: validate_block, generate_upcoming_slots, get_validator,
\* get_active_validators, calculate_network_stats, calculate_block_reward
\* and block production (create_pos_block) leave every field of
\* ConsensusState unchanged.
C33_ReadsLeaveStateUnchanged ==
    [][(last_call' # last_call /\ last_call'.op \in ReadOperations)
         => (consensus_state' = consensus_state
             /\ pos_activation_height' = pos_activation_height)]_vars

\* C37: a PoS block that create_pos_block has just produced for a
\* registered, active validator with an unlocked stake is accepted by
\* validate_block when it is validated within the next 30 seconds.
C37_ProducedBlockIsValid ==
    [][(/\ last_call.op = "create_pos_block"
        /\ last_call.ret
        /\ last_call'.op = "validate_block"
        /\ last_call'.id = last_call.id
        /\ now < last_call.arg + 30
        /\ last_call.id \in DOMAIN validators
        /\ validators[last_call.id].is_active
        /\ last_call.id \in DOMAIN stakes
        /\ ~stakes[last_call.id].is_locked)
         => last_call'.ret]_vars

(***************************************************************************)
(* Claims about the stake total, chain linkage, keys and the Merkle root   *)
(***************************************************************************)
RECURSIVE SumOfStakes(_)
SumOfStakes(ids) ==
    IF ids = {} THEN 0
    ELSE LET id == CHOOSE x \in ids : TRUE
         IN  stakes[id].amount + SumOfStakes(ids \ {id})

\* C35: after any sequence of add_validator, update_stake and
\* remove_validator calls from the empty genesis state (add_validator for
\* an already registered id included), total_stake equals the sum of
\* stakes[id].amount over the registered validators.
C35_TotalStakeIsSum ==
    total_stake = SumOfStakes(DOMAIN validators)

\* C36: after any sequence of initialize_genesis and add_block calls the
\* chain is linked: from the second block on, every block's
\* header.prev_block_hash is the hash of the block below it.
C36_ChainLinked ==
    \A i \in 2..Len(blocks) :
        blocks[i].header.prev_block_hash = get_hash(blocks[i - 1])

\* C40: the Merkle root binds the transaction list: a header whose
\* merkle_root was computed from one ordered list of txids is not accepted
\* by validate_merkle_root for a block that holds a different list
\* (SHA-256 taken to be free of collisions).
C40_MerkleRootBindsList ==
    (fn_call.op = "validate_merkle_root"
        /\ fn_call.built_from # fn_call.tx_hashes)
        => ~fn_call.ret

\* C38: the key derivation is injective: two different outpoints
\* (tx_hash, index) get different keys from MemoryStorage::make_utxo_key
\* and different keys from UTXOManager::make_cache_key.
C38_KeysInjective ==
    (fn_call.op = "make_utxo_key" /\ fn_call.a # fn_call.b)
        => (fn_call.key_a # fn_call.key_b
            /\ fn_call.cache_key_a # fn_call.cache_key_b)

(***************************************************************************)
(* Claims about concurrent calls                                           *)
(***************************************************************************)
\* C39: once every UTXOManager call has returned, the cache holds no
\* entry that is absent from the storage (so has_utxo of a removed
\* outpoint is false).
C39_CacheCoherent ==
    (\A t \in CallThreads : utxo_calls[t].pc = "returned")
        => \A key \in DOMAIN utxo_cache_ : key \in DOMAIN utxos_

\* the calls c1 and c2 run one after the other from the state st
Sequential(st, c1, c2) ==
    RunCall(RunCall(st, [c1 EXCEPT !.pc = "start"]), [c2 EXCEPT !.pc = "start"])

\* C34: validator mutations exclude each other: when two concurrent calls
\* have returned, ConsensusState is what running the two calls one after
\* the other, in one of the two orders, leaves (no update of total_stake,
\* reputation_score or missed_slots is lost).
C34_MutationsSerializable ==
    (/\ engine_calls.before # <<>>
     /\ \A t \in CallThreads : engine_calls.threads[t].pc = "returned")
        => EngineState \in
              {Sequential(engine_calls.before[1], engine_calls.threads[1],
                          engine_calls.threads[2]),
               Sequential(engine_calls.before[1], engine_calls.threads[2],
                          engine_calls.threads[1])}

=============================================================================
